---------------------------- MODULE Spec2Model ----------------------------
(***************************************************************************)
(* Schema reconciliation and prediction endpoints of the exoplanet         *)
(* backend (backend/app/api/analysis.py).                                  *)
(*                                                                         *)
(* A data frame is a sequence of columns; a column carries its current     *)
(* name, the name it had in the uploaded file (src) and its first-row      *)
(* cell (val).  A cell is NaN (an empty cell), a float, or a str.          *)
(* Floats are fixed-point integers counting units of 1/Scale (1e-5).       *)
(*                                                                         *)
(* Where the source binds a value to a local name and reads it several     *)
(* times, the model passes that value as an operator argument: the         *)
(* operator named after the source function computes the locals and hands  *)
(* them to a second operator holding the function's branches.              *)
(***************************************************************************)
EXTENDS Integers, Sequences, FiniteSets, TLC

VARIABLES
    pc,                 \* position in the handler (or in the call of a pure function)
    file,               \* the parsed upload as read by pandas: header and first row
    df,                 \* the working data frame of /upload
    afterAlias,         \* df as it left the alias step
    classified,         \* the column list handed to detect_model_type by /upload
    model_type, required_columns, request, response,
    env,                \* what the server's surroundings were for this request
    args, result,       \* arguments and result of a function called on its own
    rows, idx, results  \* /predict-batch: the file's rows, rows done, results so far

vars == <<pc, file, df, afterAlias, classified, model_type, required_columns, request,
          response, env, args, result, rows, idx, results>>

(***************************************************************************)
(* Strings                                                                 *)
(***************************************************************************)
\* Python's  k in s  for two str.
Contains(s, k) ==
    \E i \in 1..(Len(s) - Len(k) + 1) : SubSeq(s, i, i + Len(k) - 1) = k

\* any(k in s for k in keywords)
ContainsAny(s, keywords) ==
    \E j \in 1..Len(keywords) : Contains(s, keywords[j])

\* The upper-case letters and their lower-case forms
LowerTable ==
    ("A" :> "a") @@ ("B" :> "b") @@ ("C" :> "c") @@ ("D" :> "d") @@ ("E" :> "e") @@
    ("F" :> "f") @@ ("G" :> "g") @@ ("H" :> "h") @@ ("I" :> "i") @@ ("J" :> "j") @@
    ("K" :> "k") @@ ("L" :> "l") @@ ("M" :> "m") @@ ("N" :> "n") @@ ("O" :> "o") @@
    ("P" :> "p") @@ ("Q" :> "q") @@ ("R" :> "r") @@ ("S" :> "s") @@ ("T" :> "t") @@
    ("U" :> "u") @@ ("V" :> "v") @@ ("W" :> "w") @@ ("X" :> "x") @@ ("Y" :> "y") @@
    ("Z" :> "z")

\* str.lower()
RECURSIVE Lower(_)
Lower(s) ==
    IF Len(s) = 0 THEN s
    ELSE (IF SubSeq(s, 1, 1) \in DOMAIN LowerTable THEN LowerTable[SubSeq(s, 1, 1)]
          ELSE SubSeq(s, 1, 1))
         \o Lower(SubSeq(s, 2, Len(s)))

\* str.strip(), for blanks
RECURSIVE Strip(_)
Strip(s) ==
    IF Len(s) = 0 THEN s
    ELSE IF SubSeq(s, 1, 1) = " " THEN Strip(SubSeq(s, 2, Len(s)))
    ELSE IF SubSeq(s, Len(s), Len(s)) = " " THEN Strip(SubSeq(s, 1, Len(s) - 1))
    ELSE s

(***************************************************************************)
(* Numbers and cells                                                       *)
(***************************************************************************)
Scale == 100 * 1000          \* fixed-point units per 1.0: five decimal digits

Num(n) == [k |-> "num", v |-> n, s |-> ""]
NaN == [k |-> "nan", v |-> 0, s |-> ""]
Str(t) == [k |-> "str", v |-> 0, s |-> t]
None == [k |-> "none", v |-> 0, s |-> ""]

Digits ==
    ("0" :> 0) @@ ("1" :> 1) @@ ("2" :> 2) @@ ("3" :> 3) @@ ("4" :> 4) @@
    ("5" :> 5) @@ ("6" :> 6) @@ ("7" :> 7) @@ ("8" :> 8) @@ ("9" :> 9)

AllDigits(s) == Len(s) > 0 /\ \A i \in 1..Len(s) : SubSeq(s, i, i) \in DOMAIN Digits

RECURSIVE IntOf(_)
IntOf(s) ==
    IF Len(s) = 0 THEN 0
    ELSE 10 * IntOf(SubSeq(s, 1, Len(s) - 1)) + Digits[SubSeq(s, Len(s), Len(s))]

RECURSIVE PadRight(_, _)
PadRight(s, n) == IF Len(s) >= n THEN SubSeq(s, 1, n) ELSE PadRight(s \o "0", n)

\* The position of the first "." of s at or after i (0 when none)
RECURSIVE FirstDot(_, _)
FirstDot(s, i) ==
    IF i > Len(s) THEN 0 ELSE IF SubSeq(s, i, i) = "." THEN i ELSE FirstDot(s, i + 1)

\* A decimal literal split at its "." (d = 0: no ".")
ParseSplit(s, d) ==
    IF d = 0
    THEN IF AllDigits(s) THEN <<TRUE, IntOf(s) * Scale>> ELSE <<FALSE, 0>>
    ELSE IF AllDigits(SubSeq(s, 1, d - 1)) /\ AllDigits(SubSeq(s, d + 1, Len(s)))
         THEN <<TRUE, IntOf(SubSeq(s, 1, d - 1)) * Scale
                      + IntOf(PadRight(SubSeq(s, d + 1, Len(s)), 5))>>
         ELSE <<FALSE, 0>>

\* float(s) for a str: blanks around the literal are ignored; a literal  ddd  or
\* ddd.ddd  gives <<TRUE, value>>, anything else <<FALSE, 0>> (ValueError).
ParseFloat(s) == ParseSplit(Strip(s), FirstDot(Strip(s), 1))

NumOrNaN(p) == IF p[1] THEN Num(p[2]) ELSE NaN

\* pd.to_numeric(cell, errors='coerce')
to_numeric(c) ==
    IF c.k = "num" THEN c
    ELSE IF c.k = "str" THEN NumOrNaN(ParseFloat(c.s))
    ELSE NaN

\* pd.notna(cell)
notna(c) == c.k \notin {"nan", "none"}

(***************************************************************************)
(* Data frames                                                             *)
(***************************************************************************)
Col(n, s, v) == [name |-> n, src |-> s, val |-> v]

RECURSIVE columns(_)
columns(d) == IF Len(d) = 0 THEN <<>> ELSE <<d[1].name>> \o columns(Tail(d))

InCols(n, d) == \E i \in 1..Len(d) : d[i].name = n

\* The first column named n
ColAt(d, n) == d[CHOOSE i \in 1..Len(d) : d[i].name = n /\ \A j \in 1..(i-1) : d[j].name # n]

\* df[n], read as the first-row cell
Cell(d, n) == ColAt(d, n).val

\* df.rename(columns={old: new})
RECURSIVE RenameCol(_, _, _)
RenameCol(d, old, new) ==
    IF Len(d) = 0 THEN <<>>
    ELSE <<IF d[1].name = old THEN Col(new, d[1].src, d[1].val) ELSE d[1]>>
         \o RenameCol(Tail(d), old, new)

\* df[n] = cell : overwrite in place, or append a new column
SetCol(d, n, s, v) ==
    IF InCols(n, d)
    THEN [i \in 1..Len(d) |-> IF d[i].name = n THEN Col(n, s, v) ELSE d[i]]
    ELSE Append(d, Col(n, s, v))

RECURSIVE LowerNames(_)
LowerNames(d) == IF Len(d) = 0 THEN <<>> ELSE <<Lower(d[1].name)>> \o LowerNames(Tail(d))

\* A dict built by inserting (low[i], d[i].name) for i = 1, 2, ...: keys in order
\* of first insertion, each bound to the value inserted last.
RECURSIVE DictItems(_, _, _)
DictItems(d, low, i) ==
    IF i > Len(d) THEN <<>>
    ELSE IF \A j \in 1..(i-1) : low[j] # low[i]
    THEN <<[key |-> low[i],
            orig |-> d[CHOOSE j \in i..Len(d) :
                          low[j] = low[i] /\ \A m \in (j+1)..Len(d) : low[m] # low[i]].name]>>
         \o DictItems(d, low, i + 1)
    ELSE DictItems(d, low, i + 1)

\* {c.lower(): c for c in df.columns}
lower_to_col(d) == DictItems(d, LowerNames(d), 1)

HasKey(m, key) == \E i \in 1..Len(m) : m[i].key = key
Lookup(m, key) == m[CHOOSE i \in 1..Len(m) : m[i].key = key].orig

(***************************************************************************)
(* Canonical column mapper of /upload                                      *)
(***************************************************************************)
Canonical == <<"orbital_period", "transit_duration", "transit_depth", "stellar_radius">>

alias_map(canonical) ==
    CASE canonical = "orbital_period" ->
           <<"orbital_period", "koi_period", "period", "kep_period", "kepoi_period",
             "pl_orbper", "pl_orbper", "orbper", "pl_orbper">>
      [] canonical = "transit_duration" ->
           <<"transit_duration", "koi_duration", "duration", "koi_time0bk",
             "pl_trandurh", "pl_trandur", "trandur", "pl_trandurh", "tranduration">>
      [] canonical = "transit_depth" ->
           <<"transit_depth", "koi_depth", "depth", "koi_depth",
             "pl_trandep", "pl_trande", "pl_trandep">>
      [] canonical = "stellar_radius" ->
           <<"stellar_radius", "koi_srad", "srad", "koi_srad_err1", "stellar_radius_rsun",
             "st_rad">>

\* An inner alias loop without the break: the column of the last alias present
LaterOr(later, here) == IF later # "" THEN later ELSE here

RECURSIVE AliasFoundLast(_, _, _)
AliasFoundLast(m, aliases, j) ==
    IF j > Len(aliases) THEN ""
    ELSE LaterOr(AliasFoundLast(m, aliases, j + 1),
                 IF HasKey(m, Lower(aliases[j])) THEN Lookup(m, Lower(aliases[j])) ELSE "")

\* The inner alias loop: the column bound to the first alias, from position j on,
\* that is a key of lower_to_col ("" when none: found stays None)
RECURSIVE AliasFound(_, _, _)
AliasFound(m, aliases, j) ==
    IF j > Len(aliases) THEN ""
    ELSE IF HasKey(m, Lower(aliases[j])) THEN Lookup(m, Lower(aliases[j]))
    ELSE AliasFound(m, aliases, j + 1)

\* rename_map[found] = canonical
PutItem(rm, found, canonical) ==
    IF found = "" THEN rm
    ELSE IF \E i \in 1..Len(rm) : rm[i][1] = found
    THEN [i \in 1..Len(rm) |-> IF rm[i][1] = found THEN <<found, canonical>> ELSE rm[i]]
    ELSE Append(rm, <<found, canonical>>)

\* The outer alias loop, from canonical c on; rename_map as its sequence of
\* (found, canonical) items
RECURSIVE AliasLoop(_, _, _)
AliasLoop(m, rm, c) ==
    IF c > Len(Canonical) THEN rm
    ELSE AliasLoop(m, PutItem(rm, AliasFound(m, alias_map(Canonical[c]), 1), Canonical[c]),
                   c + 1)

rename_map(d) == AliasLoop(lower_to_col(d), <<>>, 1)

\* df.rename(columns=rm): every column whose name is a key gets the key's value
RECURSIVE RenameAll(_, _)
RenameAll(d, rm) ==
    IF Len(d) = 0 THEN <<>>
    ELSE <<IF \E i \in 1..Len(rm) : rm[i][1] = d[1].name
           THEN Col(rm[CHOOSE i \in 1..Len(rm) : rm[i][1] = d[1].name][2], d[1].src, d[1].val)
           ELSE d[1]>>
         \o RenameAll(Tail(d), rm)

ApplyAliases(d) == RenameAll(d, rename_map(d))

keyword_map(canonical) ==
    CASE canonical = "orbital_period" -> <<"orbper", "orb", "period", "per">>
      [] canonical = "transit_duration" -> <<"trandur", "duration", "dur", "trandurh", "tran">>
      [] canonical = "transit_depth" -> <<"trandep", "depth", "dep">>
      [] canonical = "stellar_radius" -> <<"srad", "rad", "st_rad", "prad">>

\* The inner keyword loop over lower_to_col.items(), from item i on: the column
\* of the first key that contains a keyword ("" when none)
RECURSIVE KeywordFound(_, _, _)
KeywordFound(m, keywords, i) ==
    IF i > Len(m) THEN ""
    ELSE IF ContainsAny(m[i].key, keywords) THEN m[i].orig
    ELSE KeywordFound(m, keywords, i + 1)

RenameIfFound(d, found_col, canonical) ==
    IF found_col # "" THEN RenameCol(d, found_col, canonical) ELSE d

\* The substring fallback loop, from canonical c on.  m is lower_to_col as built
\* once before the loop; df is renamed inside the loop.
RECURSIVE SubstringLoop(_, _, _)
SubstringLoop(d, m, c) ==
    IF c > Len(Canonical) THEN d
    ELSE IF InCols(Canonical[c], d) THEN SubstringLoop(d, m, c + 1)
    ELSE SubstringLoop(
             RenameIfFound(d, KeywordFound(m, keyword_map(Canonical[c]), 1), Canonical[c]),
             m, c + 1)

ApplyKeywords(d) == SubstringLoop(d, lower_to_col(d), 1)

(***************************************************************************)
(* Derived-feature synthesizer of /upload                                  *)
(***************************************************************************)
R_EARTH_TO_R_SUN == 9155      \* 0.009155, in units of 1e-6
R_SUN_TO_AU == 465047         \* 0.00465047, in units of 1e-8
DaysPerYear == 36525          \* 365.25, in units of 1e-2
RJupToREarth == 11209         \* 11.209, in units of 1e-3

\* Integer cube root (floor), for arguments up to 10^9.
ICbrt(n) == CHOOSE r \in 0..1000 : r * r * r <= n /\ (r + 1) * (r + 1) * (r + 1) > n

\* ((pr * R_EARTH_TO_R_SUN) / sr) ** 2 on fixed-point floats, sr # 0
DepthFormula(pr, sr) ==
    (((pr * R_EARTH_TO_R_SUN) \div (sr * 10)) * ((pr * R_EARTH_TO_R_SUN) \div (sr * 10)))
        \div Scale

\* (P / 365.25) ** (2.0/3.0)
EstimateA(P) ==
    ICbrt(((((P * 100) \div DaysPerYear) * ((P * 100) \div DaysPerYear)) \div Scale) * 10000)
        * 100

\* (P / math.pi) * (Rs * R_SUN_TO_AU / a) * 24.0, a # 0
DurationFormula(P, Rs, a) ==
    ((((P * 100) \div 314) * (((Rs \div 100) * R_SUN_TO_AU) \div 1000000)) \div a) * 24

\* _find_col(*candidates), from candidate i on: "" stands for None
RECURSIVE FindFrom(_, _, _)
FindFrom(d, candidates, i) ==
    IF i > Len(candidates) THEN ""
    ELSE IF InCols(candidates[i], d) THEN candidates[i]
    ELSE FindFrom(d, candidates, i + 1)

_find_col(d, candidates) == FindFrom(d, candidates, 1)

\* _to_numeric_if_exists(colname)
_to_numeric_if_exists(d, colname) ==
    IF colname # "" /\ InCols(colname, d)
    THEN [i \in 1..Len(d) |->
            IF d[i].name = colname THEN Col(colname, d[i].src, to_numeric(d[i].val)) ELSE d[i]]
    ELSE d

RECURSIVE CoerceAll(_, _)
CoerceAll(d, names) ==
    IF Len(names) = 0 THEN d
    ELSE CoerceAll(_to_numeric_if_exists(d, Head(names)), Tail(names))

col_pl_rade(d) == _find_col(d, <<"pl_rade", "pl_radj", "pl_rade">>)
col_st_rad(d) == _find_col(d, <<"stellar_radius", "st_rad", "koi_srad">>)
col_pl_orbsmax(d) == _find_col(d, <<"pl_orbsmax", "pl_orbsmax">>)
col_pl_orbper(d) == _find_col(d, <<"pl_orbper", "pl_orbper">>)
col_orbital_period(d) == _find_col(d, <<"orbital_period", "period", "pl_orbper">>)

\* The seven _to_numeric_if_exists calls, with the col_* names found beforehand
CoercePhysical(d) ==
    CoerceAll(d, <<col_pl_rade(d), "pl_radj", col_st_rad(d), col_pl_orbsmax(d),
                   "pl_orbsmaxerr1", col_pl_orbper(d), col_orbital_period(d)>>)

\* ((df[pl] * R_EARTH_TO_R_SUN) / df[st]) ** 2 with +-inf replaced by NaN
depth_series(pr, sr) ==
    IF pr.k # "num" \/ sr.k # "num" \/ sr.v = 0 THEN NaN
    ELSE Num(DepthFormula(pr.v, sr.v))

\* Bulk transit_depth
BulkDepth(d) ==
    IF ~InCols("transit_depth", d) /\ col_pl_rade(d) # "" /\ col_st_rad(d) # ""
    THEN SetCol(d, "transit_depth", "<derived>",
                depth_series(Cell(d, col_pl_rade(d)), Cell(d, col_st_rad(d))))
    ELSE d

period_col(d) ==
    IF InCols("orbital_period", d) THEN "orbital_period"
    ELSE IF InCols("pl_orbper", d) THEN "pl_orbper"
    ELSE ""

\* (P / 365.25) ** (2.0/3.0) on a cell
EstimateCell(P) == IF P.k = "num" THEN Num(EstimateA(P.v)) ELSE NaN

\* (P / math.pi) * (Rs_AU / a) * 24.0 with +-inf replaced by NaN:
\* x/0 is +-inf or NaN, and 0*inf is NaN
duration_hours(P, Rs, a) ==
    IF P.k # "num" \/ Rs.k # "num" \/ a.k # "num" THEN NaN
    ELSE IF a.v = 0 THEN NaN
    ELSE Num(DurationFormula(P.v, Rs.v, a.v))

\* a: the semi-major axis column when there is one, else the estimate from P
SeriesA(d, P) ==
    IF col_pl_orbsmax(d) # "" THEN to_numeric(Cell(d, col_pl_orbsmax(d)))
    ELSE EstimateCell(P)

DurationFromPeriod(d, P) ==
    SetCol(d, "transit_duration", "<derived>",
           duration_hours(P, to_numeric(Cell(d, col_st_rad(d))), SeriesA(d, P)))

\* Bulk transit_duration
BulkDuration(d) ==
    IF ~InCols("transit_duration", d) /\ period_col(d) # "" /\ col_st_rad(d) # ""
    THEN DurationFromPeriod(d, to_numeric(Cell(d, period_col(d))))
    ELSE d

(***************************************************************************)
(* Schema classifier                                                       *)
(***************************************************************************)
\* ' '.join(col.lower() for col in df.columns)
RECURSIVE JoinLower(_)
JoinLower(cs) ==
    IF Len(cs) = 0 THEN ""
    ELSE IF Len(cs) = 1 THEN Lower(cs[1])
    ELSE Lower(cs[1]) \o " " \o JoinLower(Tail(cs))

k2_indicators == <<"v_mag", "star_mass">>
tess_indicators == <<"tess_mag">>
kepler_indicators == <<"duration", "impact_parameter", "snr">>

\* A classifier whose K2 rule lacks the tess_mag exclusion
DetectInK2First(columns_str) ==
    IF ContainsAny(columns_str, k2_indicators) THEN "k2"
    ELSE IF ContainsAny(columns_str, tess_indicators) THEN "tess"
    ELSE "kepler"

\* A classifier that answers "generic" when no rule matches
DetectInGeneric(columns_str) ==
    IF ContainsAny(columns_str, k2_indicators) /\ ~Contains(columns_str, "tess_mag")
    THEN "k2"
    ELSE IF ContainsAny(columns_str, tess_indicators)
    THEN "tess"
    ELSE IF ContainsAny(columns_str, kepler_indicators)
            /\ ~Contains(columns_str, "v_mag") /\ ~Contains(columns_str, "tess_mag")
    THEN "kepler"
    ELSE "generic"

\* The checks of detect_model_type on columns_str
DetectIn(columns_str) ==
    IF ContainsAny(columns_str, k2_indicators) /\ ~Contains(columns_str, "tess_mag")
    THEN "k2"
    ELSE IF ContainsAny(columns_str, tess_indicators)
    THEN "tess"
    ELSE IF ContainsAny(columns_str, kepler_indicators)
            /\ ~Contains(columns_str, "v_mag") /\ ~Contains(columns_str, "tess_mag")
    THEN "kepler"
    ELSE "kepler"

\* detect_model_type(df), df given as its column list
detect_model_type(cs) == DetectIn(JoinLower(cs))

(***************************************************************************)
(* Per-model column mapping and required columns of /upload                *)
(***************************************************************************)
\* column_mapping.items(), in dict order
column_mapping(mt) ==
    IF mt = "k2"
    THEN <<<<"orbital_period", "period">>, <<"stellar_radius", "star_radius">>,
           <<"planet_radius", "radius">>, <<"pl_radius", "radius">>, <<"pl_rade", "radius">>>>
    ELSE <<<<"orbital_period", "period">>, <<"transit_duration", "duration">>,
           <<"transit_depth", "depth">>, <<"stellar_radius", "star_radius">>,
           <<"planet_radius", "radius">>, <<"pl_radius", "radius">>, <<"pl_rade", "radius">>>>

\* df[specific_col] = df[generic_col]
CopyCol(d, generic_col, specific_col) ==
    IF InCols(generic_col, d) /\ ~InCols(specific_col, d)
    THEN Append(d, Col(specific_col, ColAt(d, generic_col).src, Cell(d, generic_col)))
    ELSE d

RECURSIVE ApplyColumnMapping(_, _)
ApplyColumnMapping(d, items) ==
    IF Len(items) = 0 THEN d
    ELSE ApplyColumnMapping(CopyCol(d, Head(items)[1], Head(items)[2]), Tail(items))

\* df['radius'] = 1.0 when no planet radius column exists
DefaultRadius(d) ==
    IF InCols("radius", d) THEN d ELSE Append(d, Col("radius", "<default>", Num(Scale)))

\* The data frame after the branch of the detected model (Kepler, TESS and K2
\* all map; any other tag leaves the frame alone).
MapForModel(d, mt) ==
    IF mt \in {"k2", "tess", "kepler"}
    THEN DefaultRadius(ApplyColumnMapping(d, column_mapping(mt)))
    ELSE d

required_for(mt) ==
    CASE mt = "k2" ->
           <<"period", "radius", "teq", "star_radius", "star_mass", "logg", "insolation",
             "star_teff", "v_mag", "radius_ratio">>
      [] mt = "tess" ->
           <<"period", "duration", "depth", "radius", "teq", "star_radius", "logg",
             "insolation", "star_teff", "tess_mag", "period_duration_ratio", "transit_snr",
             "depth_duration_ratio", "radius_ratio">>
      [] mt = "kepler" ->
           <<"period", "duration", "depth", "radius", "teq", "star_radius", "logg",
             "impact_parameter", "insolation", "snr", "period_duration_ratio",
             "transit_snr", "depth_duration_ratio", "radius_ratio">>
      [] OTHER ->
           <<"orbital_period", "transit_duration", "transit_depth", "stellar_radius">>

\* The absent columns collected in the reverse of the required order
RECURSIVE MissingReversed(_, _)
MissingReversed(req, d) ==
    IF Len(req) = 0 THEN <<>>
    ELSE IF InCols(Head(req), d) THEN MissingReversed(Tail(req), d)
    ELSE MissingReversed(Tail(req), d) \o <<Head(req)>>

\* [col for col in required_columns if col not in df.columns]
RECURSIVE missing_columns(_, _)
missing_columns(req, d) ==
    IF Len(req) = 0 THEN <<>>
    ELSE IF InCols(Head(req), d) THEN missing_columns(Tail(req), d)
    ELSE <<Head(req)>> \o missing_columns(Tail(req), d)

(***************************************************************************)
(* Row validator / coercer of /upload                                      *)
(***************************************************************************)
\* row.get(n) and row.get(n, default)
RowGet(r, n, default) == IF InCols(n, r) THEN Cell(r, n) ELSE default

\* k in r and pd.notna(r[k])
Present(r, k) == InCols(k, r) /\ notna(Cell(r, k))

\* for k in ks: if k in r and pd.notna(r[k]): x = pd.to_numeric(r[k]); break
\* from key i on; None when the loop ends without a break
RECURSIVE FirstPresent(_, _, _)
FirstPresent(r, ks, i) ==
    IF i > Len(ks) THEN None
    ELSE IF Present(r, ks[i]) THEN to_numeric(Cell(r, ks[i]))
    ELSE FirstPresent(r, ks, i + 1)

\* pd.to_numeric(r['pl_radj'], errors='coerce') * 11.209
JupiterToEarth(j) == IF j.k = "num" THEN Num((j.v * RJupToREarth) \div 1000) ELSE NaN

RowPlanetRadius(r) ==
    IF Present(r, "pl_rade") THEN to_numeric(Cell(r, "pl_rade"))
    ELSE IF Present(r, "pl_radj") THEN JupiterToEarth(to_numeric(Cell(r, "pl_radj")))
    ELSE None

\* The checks and the formula of compute_transit_depth_from_row on pr and sr
DepthOrNone(pr, sr) ==
    IF pr.k # "num" \/ sr.k # "num" THEN None
    ELSE IF sr.v = 0 THEN None
    ELSE Num(DepthFormula(pr.v, sr.v))

\* Returns a float cell, or None.
compute_transit_depth_from_row(r) ==
    DepthOrNone(RowPlanetRadius(r), FirstPresent(r, <<"stellar_radius", "st_rad">>, 1))

\* a, after the estimate from the period replaces a missing or zero axis
AxisOrEstimate(P, a) == IF a.k # "num" \/ a.v = 0 THEN Num(EstimateA(P.v)) ELSE a

DurationWithAxis(P, Rs, a) ==
    IF a.v = 0 THEN None ELSE Num(DurationFormula(P.v, Rs.v, a.v))

\* The checks and the formula of compute_transit_duration_from_row on P, Rs, a
DurationOrNone(P, Rs, a) ==
    IF P.k # "num" THEN None
    ELSE IF Rs.k # "num" THEN None
    ELSE IF Rs.v = 0 THEN None
    ELSE DurationWithAxis(P, Rs, AxisOrEstimate(P, a))

compute_transit_duration_from_row(r) ==
    DurationOrNone(
        FirstPresent(r, <<"orbital_period", "pl_orbper", "period", "kep_period",
                          "koi_period">>, 1),
        FirstPresent(r, <<"stellar_radius", "st_rad", "koi_srad">>, 1),
        FirstPresent(r, <<"pl_orbsmax", "pl_orbsmax", "a">>, 1))

\* make_json_safe(row.to_dict()): NaN becomes null
make_json_safe(c) == IF c.k = "nan" THEN None ELSE c
row_sample(r) == [i \in 1..Len(r) |-> <<r[i].name, make_json_safe(r[i].val)>>]

Ok(n) == [t |-> "ok", v |-> n, error |-> "", field |-> "", value |-> None, row_sample |-> <<>>]
Raise(e, f, val, r) ==
    [t |-> "error", v |-> 0, error |-> e, field |-> f, value |-> make_json_safe(val),
     row_sample |-> row_sample(r)]

\* val is None or val == '' or (isinstance(val, float) and np.isnan(val))
IsMissing(val) == val.k = "none" \/ (val.k = "str" /\ val.s = "") \/ val.k = "nan"

\* The single-row derivation safe_float attempts for field_name (None: none)
Computed(field_name, r) ==
    IF field_name = "transit_depth" THEN compute_transit_depth_from_row(r)
    ELSE IF field_name = "transit_duration" THEN compute_transit_duration_from_row(r)
    ELSE None

\* float(val): <<TRUE, value>> or <<FALSE, 0>> when it raises
FloatOf(val) ==
    IF val.k = "num" THEN <<TRUE, val.v>>
    ELSE IF val.k = "str" THEN ParseFloat(val.s)
    ELSE <<FALSE, 0>>

\* A safe_float that prefers the caller's default to the derivation
SafeFloatDefaultFirst(val, field_name, default, r, computed, parsed) ==
    IF IsMissing(val)
    THEN IF default.k # "none" THEN Ok(default.v)
         ELSE IF computed.k # "none" THEN Ok(computed.v)
         ELSE Raise("missing_value", field_name, None, r)
    ELSE IF parsed[1] THEN Ok(parsed[2])
    ELSE Raise("invalid_number", field_name, val, r)

\* The branches of safe_float, with computed the derivation of the field and
\* parsed the outcome of float(val)
SafeFloatPolicy(val, field_name, default, r, computed, parsed) ==
    IF IsMissing(val)
    THEN IF computed.k # "none" THEN Ok(computed.v)
         ELSE IF default.k # "none" THEN Ok(default.v)
         ELSE Raise("missing_value", field_name, None, r)
    ELSE IF parsed[1] THEN Ok(parsed[2])
    ELSE Raise("invalid_number", field_name, val, r)

\* safe_float(val, field_name, default) in the scope of the first row r.
\* default is a float cell or None.
safe_float(val, field_name, default, r) ==
    SafeFloatPolicy(val, field_name, default, r, Computed(field_name, r), FloatOf(val))

(***************************************************************************)
(* Requests, predictions and responses                                     *)
(***************************************************************************)
Fields == <<"orbital_period", "transit_duration", "transit_depth", "stellar_radius",
            "stellar_mass", "stellar_temperature">>

FieldSet == {Fields[i] : i \in 1..Len(Fields)}

DEFAULT_STELLAR_MASS == Num(1 * Scale)
DEFAULT_STELLAR_TEMPERATURE == Num(5778 * Scale)

NoRequest == [f \in FieldSet |-> None]
NoDist == [exoplanet |-> 0, candidate |-> 0, false_positive |-> 0]

\* x or d : None and 0.0 are falsy, NaN is truthy
OrElse(x, d) == IF x.k = "none" \/ (x.k = "num" /\ x.v = 0) THEN d ELSE x

\* x > n and x < n for a float x: False when x is NaN
Gt(x, n) == x.k = "num" /\ x.v > n
Lt(x, n) == x.k = "num" /\ x.v < n

\* Rules whose thresholds are inclusive
DummyRulesInclusive(orbital_period, transit_depth) ==
    IF transit_depth.k = "num" /\ transit_depth.v >= 1000
       /\ orbital_period.k = "num" /\ orbital_period.v <= 50 * Scale
    THEN [prediction |-> "exoplanet", confidence |-> 85000,
          prob_dist |-> [exoplanet |-> 85000, candidate |-> 10000, false_positive |-> 5000]]
    ELSE IF transit_depth.k = "num" /\ transit_depth.v >= 500
    THEN [prediction |-> "candidate", confidence |-> 70000,
          prob_dist |-> [exoplanet |-> 20000, candidate |-> 70000, false_positive |-> 10000]]
    ELSE [prediction |-> "false_positive", confidence |-> 80000,
          prob_dist |-> [exoplanet |-> 5000, candidate |-> 15000, false_positive |-> 80000]]

\* The rules of dummy_prediction on orbital_period and transit_depth or 0.0
DummyRules(orbital_period, transit_depth) ==
    IF Gt(transit_depth, 1000) /\ Lt(orbital_period, 50 * Scale)
    THEN [prediction |-> "exoplanet", confidence |-> 85000,
          prob_dist |-> [exoplanet |-> 85000, candidate |-> 10000, false_positive |-> 5000]]
    ELSE IF Gt(transit_depth, 500)
    THEN [prediction |-> "candidate", confidence |-> 70000,
          prob_dist |-> [exoplanet |-> 20000, candidate |-> 70000, false_positive |-> 10000]]
    ELSE [prediction |-> "false_positive", confidence |-> 80000,
          prob_dist |-> [exoplanet |-> 5000, candidate |-> 15000, false_positive |-> 80000]]

\* dummy_prediction(features): features in the order of Fields
dummy_prediction(features) == DummyRules(features[1], OrElse(features[3], Num(0)))

Labels == {"exoplanet", "candidate", "false_positive"}

NoAnswer == [ok |-> FALSE, prediction |-> "", prob_dist |-> NoDist]

\* What a trained model may answer: a label and class probabilities, or a failure.
ModelAnswers ==
    {[ok |-> TRUE, prediction |-> l, prob_dist |-> d] :
        l \in Labels,
        d \in {[exoplanet |-> 60000, candidate |-> 30000, false_positive |-> 10000],
               [exoplanet |-> 10000, candidate |-> 20000, false_positive |-> 70000]}}
    \cup {NoAnswer}

\* max(probabilities)
Max3(d) ==
    IF d.exoplanet >= d.candidate /\ d.exoplanet >= d.false_positive THEN d.exoplanet
    ELSE IF d.candidate >= d.false_positive THEN d.candidate
    ELSE d.false_positive

\* prediction, confidence, prob_dist taken from a model's answer
FromModel(answer) ==
    [prediction |-> answer.prediction, confidence |-> Max3(answer.prob_dist),
     prob_dist |-> answer.prob_dist]

\* The server's surroundings at the time of a request: whether the joblib file of
\* the requested model loads, whether the module-level model was loaded at import,
\* and what a loaded model answers.
Envs == [loaded : BOOLEAN, global_model : BOOLEAN, answer : ModelAnswers]
NoEnv == [loaded |-> FALSE, global_model |-> FALSE, answer |-> NoAnswer]

NoFeatures == [f \in FieldSet |-> None]

HttpError(status, error, field, value, sample, missing, available, mt, required) ==
    [status |-> status, error |-> error, field |-> field, value |-> value,
     row_sample |-> sample, missing |-> missing, available_columns |-> available,
     model_type |-> mt, required_columns |-> required,
     prediction |-> "", confidence |-> 0, probability_distribution |-> NoDist,
     features_analyzed |-> NoFeatures]

AnalysisResponse(prediction, confidence, prob_dist, features) ==
    [status |-> 200, error |-> "", field |-> "", value |-> None,
     row_sample |-> <<>>, missing |-> <<>>, available_columns |-> <<>>,
     model_type |-> "", required_columns |-> <<>>,
     prediction |-> prediction, confidence |-> confidence,
     probability_distribution |-> prob_dist, features_analyzed |-> features]

NoResponse == HttpError(0, "", "", None, <<>>, <<>>, <<>>, "", <<>>)
Internal(where) == HttpError(500, where, "", None, <<>>, <<>>, <<>>, "", <<>>)

\* features_analyzed of both predict handlers (float(x) of None raises before)
FeaturesAnalyzed(req) ==
    [orbital_period |-> req.orbital_period,
     transit_duration |-> req.transit_duration,
     transit_depth |-> req.transit_depth,
     stellar_radius |-> req.stellar_radius,
     stellar_mass |-> OrElse(req.stellar_mass, DEFAULT_STELLAR_MASS),
     stellar_temperature |-> OrElse(req.stellar_temperature, DEFAULT_STELLAR_TEMPERATURE)]

\* The AnalysisResponse built from prediction p; float(None) raises
Respond(req, p, where) ==
    IF req.transit_duration.k = "none" \/ req.transit_depth.k = "none"
    THEN Internal(where)
    ELSE AnalysisResponse(p.prediction, p.confidence, p.prob_dist, FeaturesAnalyzed(req))

\* features of predict_exoplanet
FeaturesOr(req) ==
    <<req.orbital_period,
      OrElse(req.transit_duration, Num(0)),
      OrElse(req.transit_depth, Num(0)),
      req.stellar_radius,
      OrElse(req.stellar_mass, DEFAULT_STELLAR_MASS),
      OrElse(req.stellar_temperature, DEFAULT_STELLAR_TEMPERATURE)>>

\* features of predict_with_model and of predict_batch
FeaturesRaw(req) ==
    <<req.orbital_period, req.transit_duration, req.transit_depth, req.stellar_radius,
      OrElse(req.stellar_mass, DEFAULT_STELLAR_MASS),
      OrElse(req.stellar_temperature, DEFAULT_STELLAR_TEMPERATURE)>>

\* predict_exoplanet(request): the module-level model, or the dummy rules
predict_exoplanet(req, e) ==
    IF e.global_model /\ ~e.answer.ok THEN Internal("Error en el analisis")
    ELSE Respond(req,
                 IF e.global_model THEN FromModel(e.answer)
                 ELSE dummy_prediction(FeaturesOr(req)),
                 "Error en el analisis")

\* load_joblib_for_model(name): whether a model object comes back
load_joblib_for_model(name, e) == name \in {"kepler", "k2", "tess"} /\ e.loaded

\* predict_with_model(request, model): model is "" for None
predict_with_model(req, model, e) ==
    IF model # "" /\ ~load_joblib_for_model(Lower(model), e)
    THEN HttpError(500, "model_unavailable", "", None, <<>>, <<>>, <<>>, model, <<>>)
    ELSE IF model = "" THEN predict_exoplanet(req, e)
    ELSE Respond(req,
                 IF e.answer.ok THEN FromModel(e.answer)
                 ELSE dummy_prediction(FeaturesRaw(req)),
                 "Error en predict-with-model")

(***************************************************************************)
(* Request construction of /upload                                         *)
(***************************************************************************)
\* The default of row.get and of safe_float for one AnalysisRequest argument
DefaultOf(f) ==
    IF f = "stellar_mass" THEN DEFAULT_STELLAR_MASS
    ELSE IF f = "stellar_temperature" THEN DEFAULT_STELLAR_TEMPERATURE
    ELSE None

\* The safe_float call of one AnalysisRequest argument
FieldValue(r, f) == safe_float(RowGet(r, f, DefaultOf(f)), f, DefaultOf(f), r)

\* The arguments evaluated by safe_float, in call order; K2 passes None for
\* transit_duration and transit_depth without calling it.
CoercedFields(mt) ==
    IF mt = "k2"
    THEN <<"orbital_period", "stellar_radius", "stellar_mass", "stellar_temperature">>
    ELSE Fields

\* The outcomes of the safe_float calls for the fields fs, in order
RECURSIVE SafeFloats(_, _)
SafeFloats(r, fs) ==
    IF Len(fs) = 0 THEN <<>> ELSE <<FieldValue(r, Head(fs))>> \o SafeFloats(r, Tail(fs))

\* The position in vals of the first call that raised, from i on (0: none did)
RECURSIVE FirstError(_, _)
FirstError(vals, i) ==
    IF i > Len(vals) THEN 0
    ELSE IF vals[i].t = "error" THEN i
    ELSE FirstError(vals, i + 1)

\* AnalysisRequest(...) from the outcomes vals of the calls for fs; a field
\* without a call is None
RequestFrom(fs, vals) ==
    [f \in FieldSet |->
        IF \E i \in 1..Len(fs) : fs[i] = f
        THEN Num(vals[CHOOSE i \in 1..Len(fs) : fs[i] = f].v)
        ELSE None]

\* The HTTPException raised by a safe_float call
Rejection(v) == HttpError(400, v.error, v.field, v.value, v.row_sample, <<>>, <<>>, "", <<>>)

(***************************************************************************)
(* Uploaded files explored                                                 *)
(***************************************************************************)
MaxCols == 3       \* longest header of the column-mapper family

\* Column names of the mapper family: aliases of every canonical column, planet
\* radius columns, and one upper-case spelling.
MapperVocab == {"orbital_period", "koi_period", "KOI_PERIOD", "pl_orbper", "koi_duration",
                "koi_depth", "koi_srad", "st_rad", "pl_rade", "koi_prad"}

KeplerExtras == <<"teq", "logg", "impact_parameter", "insolation", "snr",
                  "period_duration_ratio", "transit_snr", "depth_duration_ratio",
                  "radius_ratio">>
TessExtras == <<"teq", "logg", "insolation", "star_teff", "tess_mag",
                "period_duration_ratio", "transit_snr", "depth_duration_ratio",
                "radius_ratio">>
K2Extras == <<"teq", "star_mass", "logg", "insolation", "star_teff", "v_mag",
              "radius_ratio">>
ExtraBlocks == {<<>>, KeplerExtras, TessExtras, K2Extras}

ScenarioA == <<"koi_period", "koi_duration", "koi_depth", "koi_srad">>
ScenarioB == <<"pl_orbper", "pl_rade", "st_rad">>

\* The first-row cell pandas reads for a well-formed file
NominalCell(n) ==
    CASE Contains(Lower(n), "period") \/ Contains(n, "orbper") -> Num(1230000)   \* 12.3
      [] Contains(n, "duration") -> Num(250000)                                  \* 2.5
      [] Contains(n, "depth") -> Num(1500 * Scale)                               \* 1500
      [] Contains(n, "srad") \/ Contains(n, "st_rad") -> Num(95000)              \* 0.95
      [] Contains(n, "pl_rade") \/ Contains(n, "prad") -> Num(150000)            \* 1.5
      [] OTHER -> Num(Scale)

\* First-row cells explored for the columns of the two scenarios: the nominal
\* number, an empty cell, text, and for some a second spelling of a number.
CellsOf(n) ==
    {NominalCell(n), NaN, Str("abc")}
    \cup (IF n = "koi_depth" THEN {Num(150)} ELSE {})                 \* 0.0015
    \cup (IF n = "koi_period" THEN {Str("12.3")} ELSE {})

InjSeqs(S, n) ==
    {q \in UNION {[1..m -> S] : m \in 1..n} : \A i, j \in 1..Len(q) : i # j => q[i] # q[j]}

NominalFrame(header) == [i \in 1..Len(header) |-> Col(header[i], header[i], NominalCell(header[i]))]

ScenarioFrames(base) ==
    {[i \in 1..Len(base) |-> Col(base[i], base[i], cells[i])] :
        cells \in {c \in [1..Len(base) -> UNION {CellsOf(base[i]) : i \in 1..Len(base)}] :
                      \A i \in 1..Len(base) : c[i] \in CellsOf(base[i])}}

\* Well-formed files over every ordered choice of up to n mapper columns
MapperFrames(n) == {NominalFrame(h) : h \in InjSeqs(MapperVocab, n)}

\* The two scenarios with every choice of first-row cells, alone or followed by
\* the remaining columns one of the three models requires
ScenarioFramesAll(blocks) ==
    {f \o NominalFrame(x) : f \in ScenarioFrames(ScenarioA) \cup ScenarioFrames(ScenarioB),
                            x \in blocks}

(***************************************************************************)
(* POST /upload: analyze_uploaded_file, from the parsed data frame on      *)
(***************************************************************************)
\* The variables no handler has written yet
Idle ==
    /\ afterAlias = <<>>
    /\ classified = <<>>
    /\ model_type = ""
    /\ required_columns = <<>>
    /\ request = NoRequest
    /\ response = NoResponse
    /\ env = NoEnv
    /\ result = <<>>
    /\ rows = <<>>
    /\ idx = 0
    /\ results = <<>>

Init ==
    /\ pc = "alias"
    /\ \/ file \in MapperFrames(MaxCols)
       \/ file \in ScenarioFramesAll(ExtraBlocks)
    /\ df = file
    /\ args = <<>>
    /\ Idle

AliasStep ==
    /\ pc = "alias"
    /\ df' = ApplyAliases(df)
    /\ afterAlias' = df'
    /\ pc' = "keywords"
    /\ UNCHANGED <<file, classified, model_type, required_columns, request, response, env,
                   args, result, rows, idx, results>>

KeywordStep ==
    /\ pc = "keywords"
    /\ df' = ApplyKeywords(df)
    /\ pc' = "derive"
    /\ UNCHANGED <<file, afterAlias, classified, model_type, required_columns, request,
                   response, env, args, result, rows, idx, results>>

DeriveStep ==
    /\ pc = "derive"
    /\ df' = BulkDuration(BulkDepth(CoercePhysical(df)))
    /\ pc' = "detect"
    /\ UNCHANGED <<file, afterAlias, classified, model_type, required_columns, request,
                   response, env, args, result, rows, idx, results>>

DetectStep ==
    /\ pc = "detect"
    /\ LET mt == detect_model_type(columns(df))
           mapped == MapForModel(df, mt)
           missing == missing_columns(required_for(mt), mapped)
       IN  /\ classified' = columns(df)
           /\ model_type' = mt
           /\ df' = mapped
           /\ required_columns' = required_for(mt)
           /\ IF Len(missing) > 0
              THEN /\ response' = HttpError(400, "missing_columns", "", None, <<>>, missing,
                                            columns(mapped), mt, required_for(mt))
                   /\ pc' = "done"
              ELSE /\ response' = response
                   /\ pc' = "build"
    /\ UNCHANGED <<file, afterAlias, request, env, args, result, rows, idx, results>>

\* The AnalysisRequest construction, given the outcomes vals of its safe_float
\* calls: the first call that raises ends the request
BuildFrom(vals) ==
    IF FirstError(vals, 1) # 0
    THEN /\ response' = Rejection(vals[FirstError(vals, 1)])
         /\ request' = request
         /\ pc' = "done"
    ELSE /\ request' = RequestFrom(CoercedFields(model_type), vals)
         /\ response' = response
         /\ pc' = "predict"

BuildStep ==
    /\ pc = "build"
    /\ BuildFrom(SafeFloats(df, CoercedFields(model_type)))
    /\ UNCHANGED <<file, df, afterAlias, classified, model_type, required_columns, env,
                   args, result, rows, idx, results>>

PredictStep ==
    /\ pc = "predict"
    /\ \E e \in Envs :
          /\ env' = e
          /\ model_type' = detect_model_type(columns(df))
          /\ response' = predict_with_model(request, detect_model_type(columns(df)), e)
    /\ pc' = "done"
    /\ UNCHANGED <<file, df, afterAlias, classified, required_columns, request, args,
                   result, rows, idx, results>>

Next == AliasStep \/ KeywordStep \/ DeriveStep \/ DetectStep \/ BuildStep \/ PredictStep

Spec == Init /\ [][Next]_vars

(***************************************************************************)
(* detect_model_type called on its own                                     *)
(***************************************************************************)
MaxDetectCols == 2     \* longest column list handed to the classifier

\* Column names with and without the markers of each mission, one of them in
\* upper case
DetectVocab == {"v_mag", "star_mass", "tess_mag", "TESS_MAG", "transit_duration",
                "impact_parameter", "koi_model_snr", "koi_period", "st_rad"}

DetectInit ==
    /\ pc = "call"
    /\ args \in InjSeqs(DetectVocab, MaxDetectCols)
    /\ file = <<>>
    /\ df = <<>>
    /\ Idle

DetectCall ==
    /\ pc = "call"
    /\ result' = detect_model_type(args)
    /\ pc' = "return"
    /\ UNCHANGED <<file, df, afterAlias, classified, model_type, required_columns, request,
                   response, env, args, rows, idx, results>>

SpecDetect == DetectInit /\ [][DetectCall]_vars

(***************************************************************************)
(* safe_float called on its own                                            *)
(***************************************************************************)
\* Values handed to safe_float: missing ones, floats, and text that float()
\* accepts or rejects
SafeFloatVals == {None, Str(""), NaN, Num(250000), Num(0), Str("12.3"), Str(" 7 "),
                  Str("abc")}

SafeFloatDefaults == {None, Num(Scale), Num(0)}

\* First rows: one where both derivations work, one with nothing to derive
\* from, one with a zero stellar radius, one with the NASA archive names
SafeFloatRows ==
    {NominalFrame(<<"orbital_period", "pl_rade", "stellar_radius">>),
     NominalFrame(<<"orbital_period">>),
     <<Col("orbital_period", "orbital_period", Num(1230000)),
       Col("pl_rade", "pl_rade", Num(150000)),
       Col("stellar_radius", "stellar_radius", Num(0))>>,
     <<Col("pl_orbper", "pl_orbper", Num(1230000)),
       Col("pl_radj", "pl_radj", Num(10000)),
       Col("st_rad", "st_rad", Num(95000)),
       Col("pl_orbsmax", "pl_orbsmax", Num(10000))>>}

SafeFloatInit ==
    /\ pc = "call"
    /\ args \in SafeFloatVals \X FieldSet \X SafeFloatDefaults \X SafeFloatRows
    /\ file = <<>>
    /\ df = <<>>
    /\ Idle

SafeFloatCall ==
    /\ pc = "call"
    /\ result' = safe_float(args[1], args[2], args[3], args[4])
    /\ pc' = "return"
    /\ UNCHANGED <<file, df, afterAlias, classified, model_type, required_columns, request,
                   response, env, args, rows, idx, results>>

SpecSafeFloat == SafeFloatInit /\ [][SafeFloatCall]_vars

(***************************************************************************)
(* POST /predict-batch                                                     *)
(***************************************************************************)
MaxRows == 2           \* most data rows of an uploaded batch file

PpmDivisor == 1000000  \* depth / 1e6

BatchHeaders == {ScenarioA, <<"koi_duration", "koi_depth", "koi_srad">>}

\* The text of a cell, as written in the file
RawCells(n) ==
    CASE n = "koi_period" -> {"12.3", "abc", ""}
      [] n = "koi_depth" -> {"1500", "0.0015"}
      [] n = "koi_duration" -> {"2.5"}
      [] OTHER -> {"0.95"}

RawRows(header) ==
    {c \in [1..Len(header) -> UNION {RawCells(header[j]) : j \in 1..Len(header)}] :
        \A j \in 1..Len(header) : c[j] \in RawCells(header[j])}

SeqsUpTo(S, n) == UNION {[1..m -> S] : m \in 0..n}

\* Files of up to n data rows under each header
CsvFiles(n) ==
    UNION {{[header |-> h, cells |-> c] : c \in SeqsUpTo(RawRows(h), n)} : h \in BatchHeaders}

\* pd.read_csv infers a column's dtype: float when every cell is empty or a
\* number, else object
NumericColumn(f, j) ==
    \A i \in 1..Len(f.cells) : f.cells[i][j] = "" \/ ParseFloat(f.cells[i][j])[1]

ReadCell(raw, numeric) ==
    IF raw = "" THEN NaN
    ELSE IF numeric THEN Num(ParseFloat(raw)[2])
    ELSE Str(raw)

\* pd.read_csv(io.StringIO(text)), as the sequence of its rows
read_csv(f) ==
    [i \in 1..Len(f.cells) |->
        [j \in 1..Len(f.header) |->
            Col(f.header[j], f.header[j], ReadCell(f.cells[i][j], NumericColumn(f, j)))]]

\* float(str(x).strip()) or default: str() and float() of a float give the
\* float back (NaN included); text is parsed
FloatOrDefault(c, default) ==
    IF c.k \in {"num", "nan"} THEN c
    ELSE IF ParseFloat(c.s)[1] THEN Num(ParseFloat(c.s)[2])
    ELSE default

\* row[k] not in (None, '')
NotBlank(c) == ~(c.k = "none" \/ (c.k = "str" /\ c.s = ""))

\* get_val(keys, default), from key i on
RECURSIVE GetValFrom(_, _, _, _)
GetValFrom(row, keys, default, i) ==
    IF i > Len(keys) THEN default
    ELSE IF InCols(keys[i], row) /\ NotBlank(Cell(row, keys[i]))
    THEN FloatOrDefault(Cell(row, keys[i]), default)
    ELSE GetValFrom(row, keys, default, i + 1)

get_val(row, keys, default) == GetValFrom(row, keys, default, 1)

\* if depth > 1.0: depth = depth / 1e6
PpmToFraction(depth) == IF Gt(depth, Scale) THEN Num(depth.v \div PpmDivisor) ELSE depth

map_row_to_features(row) ==
    [orbital_period |->
        get_val(row, <<"orbital_period", "koi_period", "period", "kep_period">>, Num(0)),
     transit_duration |->
        get_val(row, <<"transit_duration", "koi_duration", "duration">>, Num(0)),
     transit_depth |->
        PpmToFraction(get_val(row, <<"transit_depth", "koi_depth", "depth">>, Num(0))),
     stellar_radius |->
        get_val(row, <<"stellar_radius", "koi_srad", "srad", "stellar_radius_rsun",
                       "koi_srad_err1">>, Num(0)),
     stellar_mass |->
        get_val(row, <<"stellar_mass", "koi_smass", "smass">>, DEFAULT_STELLAR_MASS),
     stellar_temperature |->
        get_val(row, <<"stellar_temperature", "koi_steff", "teff">>,
                DEFAULT_STELLAR_TEMPERATURE)]

\* One element of results
RowResult(mapped, p) ==
    [input |-> mapped, prediction |-> p.prediction, confidence |-> p.confidence,
     probability_distribution |-> p.prob_dist]

FromResponse(resp) ==
    [prediction |-> resp.prediction, confidence |-> resp.confidence,
     prob_dist |-> resp.probability_distribution]

\* {"rows": results}
BatchResponse == AnalysisResponse("", 0, NoDist, NoFeatures)

\* What the model of one request answers for a row: a label with one
\* distribution, or a failure
RowAnswers == {a \in ModelAnswers : ~a.ok \/ (a.prediction = "candidate"
                                              /\ a.prob_dist.exoplanet = 60000)}

BatchInit ==
    /\ pc = "batch"
    /\ file \in CsvFiles(MaxRows)
    /\ args \in {<<"">>, <<"kepler">>}
    /\ df = <<>>
    /\ Idle

\* Up to the loop: read the file, reject an empty one, load the selected model
BatchStart ==
    /\ pc = "batch"
    /\ rows' = read_csv(file)
    /\ IF Len(file.cells) = 0
       THEN /\ response' = HttpError(400, "CSV vacio", "", None, <<>>, <<>>, <<>>, "", <<>>)
            /\ env' = env
            /\ pc' = "done"
       ELSE /\ response' = response
            /\ \E e \in {x \in Envs : x.answer = NoAnswer} : env' = e
            /\ pc' = "rows"
    /\ UNCHANGED <<file, df, afterAlias, classified, model_type, required_columns, request,
                   args, result, idx, results>>

\* selected_model.predict(feats), with the dummy rules when it raises
TryModel(req, e) ==
    IF e.answer.ok THEN FromModel(e.answer) ELSE dummy_prediction(FeaturesRaw(req))

\* pred, confidence, prob_dist of a row that called no handler
Predicted(p) == AnalysisResponse(p.prediction, p.confidence, p.prob_dist, NoFeatures)

\* The "Predict" part of the loop body for one row
PredictRow(req, model, e) ==
    IF model # "" /\ load_joblib_for_model(Lower(model), e) THEN Predicted(TryModel(req, e))
    ELSE IF model = "" THEN predict_exoplanet(req, e)
    ELSE Predicted(dummy_prediction(FeaturesRaw(req)))

\* The outcome resp of one row: an HTTPException leaves the handler, anything
\* else is appended to results
RowOutcome(mapped, resp) ==
    IF resp.status # 200
    THEN /\ response' = resp
         /\ results' = results
         /\ idx' = idx
         /\ pc' = "done"
    ELSE /\ response' = response
         /\ results' = Append(results, RowResult(mapped, FromResponse(resp)))
         /\ idx' = idx + 1
         /\ pc' = "rows"

BatchRow ==
    /\ pc = "rows"
    /\ idx < Len(rows)
    /\ \E a \in RowAnswers :
          /\ env' = [env EXCEPT !.answer = a]
          /\ request' = map_row_to_features(rows[idx + 1])
          /\ RowOutcome(request', PredictRow(request', args[1], env'))
    /\ UNCHANGED <<file, df, afterAlias, classified, model_type, required_columns, args,
                   result, rows>>

BatchReturn ==
    /\ pc = "rows"
    /\ idx = Len(rows)
    /\ response' = BatchResponse
    /\ pc' = "done"
    /\ UNCHANGED <<file, df, afterAlias, classified, model_type, required_columns, request,
                   env, args, result, rows, idx, results>>

BatchNext == BatchStart \/ BatchRow \/ BatchReturn

SpecBatch == BatchInit /\ [][BatchNext]_vars

(***************************************************************************)
(* Comment stripper and header locator of /upload                          *)
(***************************************************************************)
MaxLines == 3          \* most lines of the short uploads explored

WindowSize == 200      \* start + 200

\* str.lstrip(), for blanks and tabs
RECURSIVE LStrip(_)
LStrip(s) ==
    IF Len(s) = 0 THEN s
    ELSE IF SubSeq(s, 1, 1) \in {" ", "\t"} THEN LStrip(SubSeq(s, 2, Len(s)))
    ELSE s

\* lines[start].lstrip().startswith('#')
StartsWithHash(l) == Len(LStrip(l)) > 0 /\ SubSeq(LStrip(l), 1, 1) = "#"

\* lines[start].strip() == '' or lines[start].lstrip().startswith('#')
BlankOrComment(l) == LStrip(l) = "" \/ StartsWithHash(l)

\* while start < len(lines) and (...): start += 1   (indices count from 0)
RECURSIVE SkipComments(_, _)
SkipComments(lines, start) ==
    IF start < Len(lines) /\ BlankOrComment(lines[start + 1])
    THEN SkipComments(lines, start + 1)
    ELSE start

\* ',' in l or '\t' in l or any(col in l for col in [...]), l lower-cased
LooksLikeHeader(l) ==
    \/ Contains(l, ",")
    \/ Contains(l, "\t")
    \/ ContainsAny(Lower(l), Canonical)

\* The first index of the loop that breaks, -1 standing for None
FirstOf(hits) == IF hits = {} THEN -1 ELSE CHOOSE j \in hits : \A k \in hits : j <= k

\* for j in range(start, window_end): if ...: header_idx = j; break
FindHeader(lines, start, end) ==
    FirstOf({j \in start..(end - 1) : LooksLikeHeader(lines[j + 1])})

\* min(len(lines), start + 200)
window_end(lines, start) ==
    IF Len(lines) <= start + WindowSize THEN Len(lines) ELSE start + WindowSize

\* header_idx after the fallback to start
HeaderOrStart(found, start) == IF found = -1 THEN start ELSE found

\* A locator that searches to the end of the file
LocateUnbounded(lines, start) == HeaderOrStart(FindHeader(lines, start, Len(lines)), start)

\* The header locator: header_idx for the lines and their start
LocateHeader(lines, start) ==
    HeaderOrStart(FindHeader(lines, start, window_end(lines, start)), start)

\* start, header_idx and the lines of cleaned_text
Located(lines, start) ==
    [start |-> start,
     header_idx |-> LocateHeader(lines, start),
     cleaned |-> SubSeq(lines, LocateHeader(lines, start) + 1, Len(lines))]

\* Lines of uploads: blank, comment, delimited, keyword and plain ones
LineVocab == {"", "  ", "# KOI table", "  # note, indented", "koi_period,koi_depth",
              "Stellar_Radius", "plain text"}

RepeatLine(l, n) == [i \in 1..n |-> l]

\* Long uploads: a delimited line just inside and just outside the window
LongUploads ==
    {RepeatLine("# c", c) \o RepeatLine("plain text", n) \o <<"a,b">> :
        c \in {0, 1}, n \in {WindowSize - 1, WindowSize}}

LocateInit ==
    /\ pc = "call"
    /\ \/ args \in UNION {[1..m -> LineVocab] : m \in 0..MaxLines}
       \/ args \in LongUploads
    /\ file = <<>>
    /\ df = <<>>
    /\ Idle

LocateCall ==
    /\ pc = "call"
    /\ result' = Located(args, SkipComments(args, 0))
    /\ pc' = "return"
    /\ UNCHANGED <<file, df, afterAlias, classified, model_type, required_columns, request,
                   response, env, args, rows, idx, results>>

\* pd.read_csv(io.StringIO(cleaned_text)), and again with sep=None: both raise
\* EmptyDataError on a text without lines, which the handler turns into
\* HTTPException(500, "Error procesando archivo: ..."); any other text has a
\* first line that is read as the header of a frame
ReadCleaned(cleaned) ==
    IF cleaned = <<>> THEN Internal("Error procesando archivo") ELSE NoResponse

ReadCsv ==
    /\ pc = "return"
    /\ response' = ReadCleaned(result.cleaned)
    /\ pc' = IF result.cleaned = <<>> THEN "done" ELSE "frame"
    /\ UNCHANGED <<file, df, afterAlias, classified, model_type, required_columns, request,
                   env, args, result, rows, idx, results>>

LocateNext == LocateCall \/ ReadCsv

SpecLocate == LocateInit /\ [][LocateNext]_vars

(***************************************************************************)
(* The derived features of /upload: bulk and single-row forms on one row   *)
(***************************************************************************)
\* Columns of the physical inputs, in file order
DeriveColumns == <<"pl_rade", "pl_radj", "st_rad", "pl_orbper", "pl_orbsmax">>

\* A number for each physical input: 1.5 R_earth, 0.2 R_jup, 0.1 R_sun,
\* 10 days, 0.1 AU
DeriveNumber(n) ==
    CASE n = "pl_rade" -> Num(150000)
      [] n = "pl_radj" -> Num(20000)
      [] n = "st_rad" -> Num(10000)
      [] n = "pl_orbper" -> Num(10 * Scale)
      [] n = "pl_orbsmax" -> Num(10000)

\* First-row cells: absent column, empty cell, text, zero, a number
DeriveCells(n) == {None, NaN, Str("abc"), Num(0), DeriveNumber(n)}

\* The columns of a choice of cells, the absent ones left out
RECURSIVE FrameOf(_, _)
FrameOf(cells, i) ==
    IF i > Len(DeriveColumns) THEN <<>>
    ELSE (IF cells[i] = None THEN <<>>
          ELSE <<Col(DeriveColumns[i], DeriveColumns[i], cells[i])>>)
         \o FrameOf(cells, i + 1)

DeriveFiles ==
    {FrameOf(cells, 1) :
        cells \in {c \in [1..Len(DeriveColumns) -> UNION {DeriveCells(DeriveColumns[i]) :
                                                             i \in 1..Len(DeriveColumns)}] :
                      \A i \in 1..Len(DeriveColumns) : c[i] \in DeriveCells(DeriveColumns[i])}}

\* df[name] of the first row, None when there is no such column
CellOrNone(d, n) == IF InCols(n, d) THEN Cell(d, n) ELSE None

DeriveInit ==
    /\ pc = "alias"
    /\ file \in DeriveFiles
    /\ df = file
    /\ args = <<>>
    /\ Idle

\* Alias step, substring fallback and numeric coercion of the physical inputs
DerivePrepare ==
    /\ pc = "alias"
    /\ df' = CoercePhysical(ApplyKeywords(ApplyAliases(df)))
    /\ afterAlias' = ApplyAliases(df)
    /\ pc' = "derive"
    /\ UNCHANGED <<file, classified, model_type, required_columns, request, response, env,
                   args, result, rows, idx, results>>

\* The bulk derivations, then the single-row derivations on row = df.iloc[0]
Derivations(row, d) ==
    [row |-> row,
     bulk_depth |-> CellOrNone(d, "transit_depth"),
     bulk_duration |-> CellOrNone(d, "transit_duration"),
     row_depth |-> compute_transit_depth_from_row(d),
     row_duration |-> compute_transit_duration_from_row(d)]

DeriveCall ==
    /\ pc = "derive"
    /\ df' = BulkDuration(BulkDepth(df))
    /\ result' = Derivations(df, df')
    /\ pc' = "return"
    /\ UNCHANGED <<file, afterAlias, classified, model_type, required_columns, request,
                   response, env, args, rows, idx, results>>

DeriveNext == DerivePrepare \/ DeriveCall

SpecDerive == DeriveInit /\ [][DeriveNext]_vars

(***************************************************************************)
(* Disposition normalizer of the dashboard                                 *)
(***************************************************************************)
\* str.upper() of one character
UpperChar(c) ==
    IF \E u \in DOMAIN LowerTable : LowerTable[u] = c
    THEN CHOOSE u \in DOMAIN LowerTable : LowerTable[u] = c
    ELSE c

\* str.upper()
RECURSIVE Upper(_)
Upper(s) ==
    IF Len(s) = 0 THEN s
    ELSE UpperChar(SubSeq(s, 1, 1)) \o Upper(SubSeq(s, 2, Len(s)))

\* astype(str) of a cell: the text of a text cell, 'nan' for a missing one
AsTypeStr(c) == IF c.k = "str" THEN c.s ELSE "nan"

\* df[disposition_col].astype(str).str.upper().fillna('').str.strip()
vals(c) == Strip(Upper(AsTypeStr(c)))

\* A normalizer whose substring fallback looks for CONFIR first
NormalizeConfirFirst(s) ==
    IF s = "" \/ s = "NAN" THEN ""
    ELSE IF s \in {"CONFIRMED", "CONFIRMED_PLANET", "CP", "KP"} THEN "CONFIRMED"
    ELSE IF s \in {"CANDIDATE", "PC", "PC?"} THEN "CANDIDATE"
    ELSE IF s \in {"FALSE POSITIVE", "FALSE_POSITIVE", "FP"} THEN "FALSE POSITIVE"
    ELSE IF Contains(s, "CONFIR") THEN "CONFIRMED"
    ELSE IF Contains(s, "CANDID") THEN "CANDIDATE"
    ELSE IF Contains(s, "FALSE") THEN "FALSE POSITIVE"
    ELSE s

\* A normalizer that gives '' for every label it does not recognise
NormalizeOrDrop(s) ==
    IF s = "" \/ s = "NAN" THEN ""
    ELSE IF s \in {"CONFIRMED", "CONFIRMED_PLANET", "CP", "KP"} THEN "CONFIRMED"
    ELSE IF s \in {"CANDIDATE", "PC", "PC?"} THEN "CANDIDATE"
    ELSE IF s \in {"FALSE POSITIVE", "FALSE_POSITIVE", "FP"} THEN "FALSE POSITIVE"
    ELSE IF Contains(s, "FALSE") THEN "FALSE POSITIVE"
    ELSE IF Contains(s, "CANDID") THEN "CANDIDATE"
    ELSE IF Contains(s, "CONFIR") THEN "CONFIRMED"
    ELSE ""

\* normalize_disp(s), the same in disposition_stats and in dashboard_stats
normalize_disp(s) ==
    IF s = "" \/ s = "NAN" THEN ""
    ELSE IF s \in {"CONFIRMED", "CONFIRMED_PLANET", "CP"} THEN "CONFIRMED"
    ELSE IF s \in {"CANDIDATE", "PC", "PC?"} THEN "CANDIDATE"
    ELSE IF s \in {"FALSE POSITIVE", "FALSE_POSITIVE", "FP"} THEN "FALSE POSITIVE"
    ELSE IF s = "KP" THEN "CONFIRMED"
    ELSE IF Contains(s, "FALSE") THEN "FALSE POSITIVE"
    ELSE IF Contains(s, "CANDID") \/ s = "PC" THEN "CANDIDATE"
    ELSE IF Contains(s, "CONFIR") \/ s = "CP" THEN "CONFIRMED"
    ELSE s

\* Labels of the catalogs, and texts that are none
LabelCores ==
    {"CONFIRMED", "CONFIRMED_PLANET", "CP", "KP", "CANDIDATE", "PC", "PC?",
     "FALSE POSITIVE", "FALSE_POSITIVE", "FP", "APC", "FA", "NAN", "",
     "FALSE CONFIRMATION", "UNCONFIRMED", "CANDID", "REFUTED", "NOT DISPOSITIONED"}

\* Raw cells of a disposition column: labels in upper and lower case, with
\* blanks around them or a question mark after them, and a missing cell
RawLabels ==
    {Str(pre \o core \o post) :
        pre \in {"", " "},
        core \in LabelCores \cup {Lower(c) : c \in LabelCores},
        post \in {"", " ", "?"}}
    \cup {NaN}

DispInit ==
    /\ pc = "call"
    /\ args \in RawLabels
    /\ file = <<>>
    /\ df = <<>>
    /\ Idle

\* mapped = vals.map(normalize_disp), for one cell of the column
DispCall ==
    /\ pc = "call"
    /\ result' = [s |-> vals(args), mapped |-> normalize_disp(vals(args))]
    /\ pc' = "return"
    /\ UNCHANGED <<file, df, afterAlias, classified, model_type, required_columns, request,
                   response, env, args, rows, idx, results>>

SpecDisp == DispInit /\ [][DispCall]_vars

(***************************************************************************)
(* dummy_prediction on its own                                             *)
(***************************************************************************)
\* Feature vectors in the order of Fields: periods and depths on both sides of
\* the thresholds and on them, NaN, and None where the request allows it
DummyFeatures ==
    {<<p, du, de, sr, m, t>> :
        p \in {NaN, Num(0), Num(1230000), Num(50 * Scale - 1), Num(50 * Scale),
               Num(365 * Scale)},
        du \in {None, Num(250000)},
        de \in {None, NaN, Num(0), Num(499), Num(500), Num(501), Num(1000), Num(1001),
                Num(1500 * Scale)},
        sr \in {Num(0), Num(95000)},
        m \in {DEFAULT_STELLAR_MASS},
        t \in {DEFAULT_STELLAR_TEMPERATURE}}

DummyInit ==
    /\ pc = "call"
    /\ args \in DummyFeatures
    /\ file = <<>>
    /\ df = <<>>
    /\ Idle

DummyCall ==
    /\ pc = "call"
    /\ result' = dummy_prediction(args)
    /\ pc' = "return"
    /\ UNCHANGED <<file, df, afterAlias, classified, model_type, required_columns, request,
                   response, env, args, rows, idx, results>>

SpecDummy == DummyInit /\ [][DummyCall]_vars

(***************************************************************************)
(* CSVExoplanetMapper (backend/app/utils/csv_mapper.py) and the            *)
(* /exoplanets/upload-csv handler (backend/app/api/exoplanets.py)          *)
(***************************************************************************)
MaxCsvRows == 2

DigitChars == <<"0", "1", "2", "3", "4", "5", "6", "7", "8", "9">>

\* str(n) of a natural number
RECURSIVE NatStr(_)
NatStr(n) == IF n < 10 THEN DigitChars[n + 1] ELSE NatStr(n \div 10) \o DigitChars[(n % 10) + 1]

\* The decimals of a float's text: no trailing zeros, at least one digit
RECURSIVE FracStr(_, _)
FracStr(frac, width) ==
    IF width = 1 THEN DigitChars[frac + 1]
    ELSE IF frac % 10 = 0 THEN FracStr(frac \div 10, width - 1)
    ELSE FracStr(frac \div 10, width - 1) \o DigitChars[(frac % 10) + 1]

\* str(x) of a cell: the text itself, '101.01' for a float, 'nan' for NaN
StrOfCell(c) ==
    IF c.k = "str" THEN c.s
    ELSE IF c.k = "num" THEN NatStr(c.v \div Scale) \o "." \o FracStr(c.v % Scale, 5)
    ELSE IF c.k = "nan" THEN "nan"
    ELSE "None"

\* s.replace(a, b) for one-character a
RECURSIVE Replace(_, _, _)
Replace(s, a, b) ==
    IF Len(s) = 0 THEN s
    ELSE (IF SubSeq(s, 1, 1) = a THEN b ELSE SubSeq(s, 1, 1)) \o Replace(Tail(s), a, b)

\* bool(x): None, 0.0 and '' are falsy, NaN is truthy
Truthy(c) ==
    \/ c.k = "nan"
    \/ c.k = "num" /\ c.v # 0
    \/ c.k = "str" /\ c.s # ""

mission_mappings ==
    ("tess" :> [name |-> "toi", rightAscension |-> "ra", declination |-> "dec",
                orbitalPeriod |-> "pl_orbper", radius |-> "pl_rade",
                stellarTemperature |-> "st_teff", mission |-> "TESS"]) @@
    ("kepler" :> [name |-> "kepler_name", rightAscension |-> "ra", declination |-> "dec",
                  orbitalPeriod |-> "koi_period", radius |-> "koi_prad",
                  stellarTemperature |-> "koi_steff", mission |-> "Kepler"]) @@
    ("k2" :> [name |-> "pl_name", rightAscension |-> "ra", declination |-> "dec",
              orbitalPeriod |-> "pl_orbper", radius |-> "pl_rade",
              stellarTemperature |-> "st_teff", mission |-> "K2"]) @@
    ("unknown" :> [name |-> "", rightAscension |-> "", declination |-> "",
                   orbitalPeriod |-> "", radius |-> "", stellarTemperature |-> "",
                   mission |-> "Unknown"])

\* set([col.lower() for col in df.columns])
LowerSet(header) == {Lower(header[i]) : i \in 1..Len(header)}

\* A classifier that looks at the first column only
DetectFirstColumn(cols, header) ==
    IF Len(header) = 0 THEN "unknown"
    ELSE IF Lower(header[1]) \in {"toi", "pl_tranmid"} THEN "tess"
    ELSE IF Lower(header[1]) \in {"kepid", "koi_disposition"} THEN "kepler"
    ELSE IF Lower(header[1]) \in {"pl_name", "disposition"} THEN "k2"
    ELSE "unknown"

\* detect_mission_type over columns = the lower-cased names of the header
MissionOf(cols, header) ==
    IF cols \cap {"toi", "pl_tranmid"} # {} THEN "tess"
    ELSE IF cols \cap {"kepid", "koi_disposition"} # {} THEN "kepler"
    ELSE IF cols \cap {"pl_name", "disposition"} # {} THEN "k2"
    ELSE IF {"pl_orbper", "pl_rade"} \subseteq cols THEN "tess"
    ELSE IF {"koi_period", "koi_prad"} \subseteq cols THEN "kepler"
    ELSE "unknown"

detect_mission_type(header) == MissionOf(LowerSet(header), header)

\* detect_mission_type_from_file: any failure to read gives 'unknown'
detect_mission_type_from_file(f) ==
    IF f.readable THEN detect_mission_type(f.header) ELSE "unknown"

\* row[column] if column in row.index else None
safe_get(row, column) == IF InCols(column, row) THEN Cell(row, column) ELSE None

\* The first candidate that is a column of the frame, 0 when none
RECURSIVE FirstCandidate(_, _, _)
FirstCandidate(row, candidates, i) ==
    IF i > Len(candidates) THEN 0
    ELSE IF InCols(candidates[i], row) THEN i
    ELSE FirstCandidate(row, candidates, i + 1)

\* for candidate in candidates: if candidate in df.columns: return row[candidate]
FindColumn(row, candidates, i, default) ==
    IF i = 0 THEN default ELSE safe_get(row, candidates[i])

RECURSIVE FindName(_, _, _, _)
FindName(row, candidates, i, index) ==
    IF i > Len(candidates) THEN Str("exoplanet-" \o NatStr(index))
    ELSE IF InCols(candidates[i], row)
            /\ Truthy(Cell(row, candidates[i])) /\ notna(Cell(row, candidates[i]))
    THEN Str(StrOfCell(Cell(row, candidates[i])))
    ELSE FindName(row, candidates, i + 1, index)

find_name_column(row, index) ==
    FindName(row, <<"name", "pl_name", "toi", "kepler_name", "planet_name", "id">>, 1, index)

\* (base_ra + random_offset) % 360 when the file has no right-ascension column
find_ra_column(row, index, offset) ==
    LET candidates == <<"ra", "right_ascension", "ra_deg", "ra_degrees">>
    IN  FindColumn(row, candidates, FirstCandidate(row, candidates, 1),
                   Num(((((index * 45) % 360) * Scale) + offset) % (360 * Scale)))

Clamp(lo, x, hi) == IF x < lo THEN lo ELSE IF x > hi THEN hi ELSE x

\* max(-90, min(90, base_dec + random_offset)) when the file has no declination
find_dec_column(row, index, offset) ==
    LET candidates == <<"dec", "declination", "dec_deg", "dec_degrees">>
    IN  FindColumn(row, candidates, FirstCandidate(row, candidates, 1),
                   Num(Clamp(-90 * Scale,
                             ((((index * 30 - 90) % 180) - 90) * Scale) + offset,
                             90 * Scale)))

find_period_column(row) ==
    LET candidates == <<"period", "orbital_period", "pl_orbper", "koi_period", "orb_period">>
    IN  FindColumn(row, candidates, FirstCandidate(row, candidates, 1), Num(1 * Scale))

find_radius_column(row) ==
    LET candidates == <<"radius", "pl_rade", "koi_prad", "planet_radius", "pl_rad">>
    IN  FindColumn(row, candidates, FirstCandidate(row, candidates, 1), Num(1 * Scale))

find_temp_column(row) ==
    LET candidates == <<"temp", "temperature", "st_teff", "koi_steff", "stellar_temp", "teff">>
    IN  FindColumn(row, candidates, FirstCandidate(row, candidates, 1), Num(5000 * Scale))

\* 'confirmed' / 'candidate' / anything else, in a disposition column
DispositionClass(disposition) ==
    IF disposition.k = "none" THEN "candidate"
    ELSE IF Contains(Lower(StrOfCell(disposition)), "confirmed") THEN "exoplanet"
    ELSE IF Contains(Lower(StrOfCell(disposition)), "candidate") THEN "candidate"
    ELSE "false_positive"

map_tess_classification(row) == "candidate"
map_kepler_classification(row) == DispositionClass(safe_get(row, "koi_disposition"))
map_k2_classification(row) == DispositionClass(safe_get(row, "disposition"))

\* The verdict of the first classification column whose text decides, "" when none
RECURSIVE GenericLabel(_, _, _)
GenericLabel(row, candidates, i) ==
    IF i > Len(candidates) THEN ""
    ELSE IF ~InCols(candidates[i], row) THEN GenericLabel(row, candidates, i + 1)
    ELSE IF ContainsAny(Lower(StrOfCell(Cell(row, candidates[i]))), <<"confirmed", "exoplanet">>)
    THEN "exoplanet"
    ELSE IF Contains(Lower(StrOfCell(Cell(row, candidates[i]))), "candidate")
    THEN "candidate"
    ELSE IF ContainsAny(Lower(StrOfCell(Cell(row, candidates[i]))), <<"false", "fp">>)
    THEN "false_positive"
    ELSE GenericLabel(row, candidates, i + 1)

\* row.get(k1, row.get(k2, row.get(k3, default)))
RowGet3(row, keys, default) ==
    IF InCols(keys[1], row) THEN Cell(row, keys[1])
    ELSE IF InCols(keys[2], row) THEN Cell(row, keys[2])
    ELSE IF InCols(keys[3], row) THEN Cell(row, keys[3])
    ELSE default

\* The radius/period rule; rand decides when float() raises
GenericRule(radius, period, rand) ==
    IF (~FloatOf(radius)[1] /\ radius.k # "nan") \/ (~FloatOf(period)[1] /\ period.k # "nan")
    THEN (IF rand < 30 THEN "exoplanet" ELSE IF rand < 50 THEN "false_positive"
          ELSE "candidate")
    ELSE IF radius.k # "nan" /\ period.k # "nan"
            /\ FloatOf(radius)[2] > 150000 /\ FloatOf(period)[2] < 10 * Scale
    THEN "exoplanet"
    ELSE IF (radius.k # "nan" /\ FloatOf(radius)[2] > 2 * Scale)
            \/ (period.k # "nan" /\ FloatOf(period)[2] > 100 * Scale)
    THEN "false_positive"
    ELSE "candidate"

GenericOr(label, row, rand) ==
    IF label # "" THEN label
    ELSE GenericRule(RowGet3(row, <<"radius", "pl_rade", "stellar_radius">>, Num(1 * Scale)),
                     RowGet3(row, <<"period", "orbital_period", "pl_orbper">>, Num(10 * Scale)),
                     rand)

map_generic_classification(row, rand) ==
    GenericOr(GenericLabel(row, <<"disposition", "status", "classification", "type",
                                  "koi_disposition">>, 1),
              row, rand)

extract_discovery_year(mission_type) ==
    CASE mission_type = "kepler" -> 2009
      [] mission_type = "k2" -> 2014
      [] mission_type = "tess" -> 2018
      [] OTHER -> 2020

MissionClass(row, mission_type) ==
    CASE mission_type = "tess" -> map_tess_classification(row)
      [] mission_type = "kepler" -> map_kepler_classification(row)
      [] OTHER -> map_k2_classification(row)

\* The values _map_row_to_exoplanet extracts: through the generic finders for
\* the 'unknown' mapping, through the mission's column names otherwise
Extracted(row, mission_type, mapping, index, rnd) ==
    IF mission_type = "unknown"
    THEN [name |-> find_name_column(row, index),
          classification |-> map_generic_classification(row, rnd.rand),
          ra |-> find_ra_column(row, index, rnd.ra),
          dec |-> find_dec_column(row, index, rnd.dec),
          orbital_period |-> find_period_column(row),
          radius |-> find_radius_column(row),
          stellar_temp |-> find_temp_column(row)]
    ELSE [name |-> safe_get(row, mapping.name),
          classification |-> MissionClass(row, mission_type),
          ra |-> safe_get(row, mapping.rightAscension),
          dec |-> safe_get(row, mapping.declination),
          orbital_period |-> safe_get(row, mapping.orbitalPeriod),
          radius |-> safe_get(row, mapping.radius),
          stellar_temp |-> safe_get(row, mapping.stellarTemperature)]

\* float(x) if x is not None and not pd.isna(x) else default
FloatField(c, default) == IF notna(c) THEN FloatOf(c) ELSE <<TRUE, default>>

NoExoplanet == [ok |-> FALSE, exoplanet |-> <<>>]

Exoplanet(x, mission_type, mapping, ra, dec, period, radius, temp) ==
    IF ~Truthy(x.name) \/ ~notna(x.name) THEN NoExoplanet
    ELSE IF ~(ra[1] /\ dec[1] /\ period[1] /\ radius[1] /\ temp[1]) THEN NoExoplanet
    ELSE [ok |-> TRUE,
          exoplanet |->
             [id |-> Lower(mission_type) \o "-"
                     \o Replace(Replace(StrOfCell(x.name), " ", "-"), "/", "-"),
              name |-> StrOfCell(x.name),
              classification |-> x.classification,
              rightAscension |-> ra[2],
              declination |-> dec[2],
              orbitalPeriod |-> period[2],
              radius |-> radius[2],
              stellarTemperature |-> temp[2],
              discoveryYear |-> extract_discovery_year(mission_type),
              mission |-> mapping.mission]]

ExoplanetOf(x, mission_type, mapping) ==
    Exoplanet(x, mission_type, mapping,
              FloatField(x.ra, 0), FloatField(x.dec, 0),
              FloatField(x.orbital_period, 1 * Scale), FloatField(x.radius, 1 * Scale),
              FloatField(x.stellar_temp, 5000 * Scale))

\* _map_row_to_exoplanet: None when the row has no name or a value is not a number
map_row_to_exoplanet(row, mapping, mission_type, index, rnd) ==
    ExoplanetOf(Extracted(row, mission_type, mapping, index, rnd), mission_type, mapping)

\* exoplanet['mission'] = ...
Labelled(exoplanet, mission_type) ==
    [exoplanet EXCEPT !.mission =
        IF mission_type \in DOMAIN mission_mappings
        THEN mission_mappings[mission_type].mission ELSE "Unknown"]

\* A loop that gives up at the first row that does not map
RECURSIVE MapRowsUntilFailure(_, _, _, _, _)
MapRowsUntilFailure(frame, i, actual_mapping_type, mission_type, rnd) ==
    IF i > Len(frame) THEN <<>>
    ELSE IF map_row_to_exoplanet(frame[i], mission_mappings[actual_mapping_type],
                                 actual_mapping_type, i - 1, rnd).ok
    THEN <<Labelled(map_row_to_exoplanet(frame[i], mission_mappings[actual_mapping_type],
                                         actual_mapping_type, i - 1, rnd).exoplanet,
                    mission_type)>>
         \o MapRowsUntilFailure(frame, i + 1, actual_mapping_type, mission_type, rnd)
    ELSE <<>>

\* for _, row in df.iterrows(): the rows that map, labelled, in file order
RECURSIVE MapRows(_, _, _, _, _)
MapRows(frame, i, actual_mapping_type, mission_type, rnd) ==
    IF i > Len(frame) THEN <<>>
    ELSE (IF map_row_to_exoplanet(frame[i], mission_mappings[actual_mapping_type],
                                  actual_mapping_type, i - 1, rnd).ok
          THEN <<Labelled(map_row_to_exoplanet(frame[i], mission_mappings[actual_mapping_type],
                                               actual_mapping_type, i - 1, rnd).exoplanet,
                          mission_type)>>
          ELSE <<>>)
         \o MapRows(frame, i + 1, actual_mapping_type, mission_type, rnd)

GenericColumns == {"name", "orbital_period", "transit_duration", "transit_depth",
                   "stellar_radius"}

\* A choice of mapping that never looks for generic columns
MappingOfMission(cols, mission_type) == mission_type

\* actual_mapping_type of process_csv
actual_mapping_type(cols, mission_type) ==
    IF cols \cap GenericColumns # {} THEN "unknown" ELSE mission_type

Raised(why) == [raised |-> TRUE, why |-> why, exoplanets |-> <<>>, mapping |-> ""]

ProcessWith(f, mission_type, mapping_type, rnd) ==
    IF mapping_type \notin DOMAIN mission_mappings
    THEN Raised("Tipo de mision no soportado")
    ELSE [raised |-> FALSE, why |-> "", mapping |-> mapping_type,
          exoplanets |-> MapRows(read_csv(f), 1, mapping_type, mission_type, rnd)]

\* process_csv(file_path, mission_type): mission_type "" stands for None
process_csv(f, mission_type, rnd) ==
    IF ~f.readable THEN Raised("read_csv")
    ELSE IF mission_type = ""
    THEN ProcessWith(f, detect_mission_type(f.header),
                     actual_mapping_type(LowerSet(f.header), detect_mission_type(f.header)),
                     rnd)
    ELSE ProcessWith(f, mission_type,
                     actual_mapping_type(LowerSet(f.header), mission_type), rnd)

(***************************************************************************)
(* upload_csv_file                                                         *)
(***************************************************************************)
MapperHeaders ==
    {<<"toi", "ra", "pl_orbper">>,
     <<"kepler_name", "koi_disposition", "koi_period">>,
     <<"pl_name", "disposition", "pl_orbper">>,
     <<"name", "orbital_period">>,
     <<"toi", "Orbital_Period">>,
     <<"planet", "dec">>}

MapperCells(n) ==
    CASE n = "toi" -> {"101.01", "", "0"}
      [] n \in {"kepler_name", "pl_name", "name"} -> {"K2-18 b", ""}
      [] n \in {"ra", "dec"} -> {"285.5", "abc"}
      [] n \in {"koi_disposition", "disposition"} -> {"CONFIRMED", "FALSE POSITIVE"}
      [] n = "planet" -> {"b"}
      [] OTHER -> {"12.3"}

MapperRows(header) ==
    {c \in [1..Len(header) -> UNION {MapperCells(header[j]) : j \in 1..Len(header)}] :
        \A j \in 1..Len(header) : c[j] \in MapperCells(header[j])}

Unreadable == [readable |-> FALSE, header |-> <<>>, cells |-> <<>>]

MapperFiles ==
    {Unreadable} \cup
    UNION {{[readable |-> TRUE, header |-> h, cells |-> c] :
              c \in SeqsUpTo(MapperRows(h), MaxCsvRows)} : h \in MapperHeaders}

\* The mission_type form field ("" when absent) and the uploaded file's name
MissionHints == {"", "tess", "kepler", "k2", "unknown", "TESS", "hubble"}
Filenames == {"planets.csv", "planets.txt"}

\* Draws of random.uniform(-10, 10), random.uniform(-15, 15) and
\* 100 * random.random(); one draw of each serves every row of a call
Randoms == [ra : {-5 * Scale, 5 * Scale}, dec : {12 * Scale}, rand : {20, 40, 60}]

CsvReply(status, detail, total, inserted, mission_type) ==
    [status |-> status, detail |-> detail, total_processed |-> total,
     inserted |-> inserted, mission_type |-> mission_type]

EndsWith(s, suffix) ==
    Len(s) >= Len(suffix) /\ SubSeq(s, Len(s) - Len(suffix) + 1, Len(s)) = suffix

UploadCsvInit ==
    /\ pc = "start"
    /\ file \in MapperFiles
    /\ args \in [filename : Filenames, mission_type : MissionHints]
    /\ df = <<>>
    /\ Idle

\* The filename check, NamedTemporaryFile(delete=False) and await file.read():
\* the temporary file exists from its creation on, and a failing read leaves the
\* with block before the try/finally that unlinks it
CsvReceive ==
    /\ pc = "start"
    /\ \/ /\ ~EndsWith(args.filename, ".csv")
          /\ response' = CsvReply(400, "Solo se permiten archivos CSV", 0, 0, "")
          /\ pc' = "done"
          /\ UNCHANGED env
       \/ /\ EndsWith(args.filename, ".csv")
          /\ \E read_ok \in BOOLEAN :
                /\ env' = [temp_file |-> "exists"]
                /\ IF read_ok
                   THEN pc' = "process" /\ UNCHANGED response
                   ELSE /\ pc' = "done"
                        /\ response' = CsvReply(500, "Error procesando archivo: read", 0, 0, "")
    /\ UNCHANGED <<file, df, afterAlias, classified, model_type, required_columns, request,
                   args, result, rows, idx, results>>

detected_mission_type(hint, f) ==
    IF hint # "" THEN hint ELSE detect_mission_type_from_file(f)

\* process_csv and what follows it: a raise or an empty list leaves through the
\* finally clause, which unlinks the temporary file
CsvProcessed(p, mission_type) ==
    /\ model_type' = mission_type
    /\ classified' = p.mapping
    /\ results' = p.exoplanets
    /\ idx' = 0
    /\ result' = 0
    /\ rows' = <<>>
    /\ IF p.raised
       THEN /\ response' = CsvReply(500, "Error procesando archivo: " \o p.why, 0, 0, "")
            /\ env' = [temp_file |-> "deleted"]
            /\ pc' = "done"
       ELSE IF Len(p.exoplanets) = 0
       THEN /\ response' = CsvReply(400, "No se encontraron exoplanetas validos", 0, 0, "")
            /\ env' = [temp_file |-> "deleted"]
            /\ pc' = "done"
       ELSE /\ pc' = "insert"
            /\ UNCHANGED <<response, env>>

CsvProcess ==
    /\ pc = "process"
    /\ \E rnd \in Randoms :
          CsvProcessed(process_csv(file, detected_mission_type(args.mission_type, file), rnd),
                       detected_mission_type(args.mission_type, file))
    /\ UNCHANGED <<file, df, afterAlias, required_columns, request, args>>

\* One turn of the insertion loop: insert_exoplanet answers True, or False when
\* insert_one raises; rows holds the documents the collection received
CsvInsert ==
    /\ pc = "insert"
    /\ idx < Len(results)
    /\ \E stored \in BOOLEAN :
          /\ rows' = IF stored THEN Append(rows, results[idx + 1]) ELSE rows
          /\ result' = IF stored THEN result + 1 ELSE result
    /\ idx' = idx + 1
    /\ UNCHANGED <<pc, file, df, afterAlias, classified, model_type, required_columns,
                   request, response, env, args, results>>

\* return {...} through the finally clause
CsvReturn ==
    /\ pc = "insert"
    /\ idx = Len(results)
    /\ response' = CsvReply(200, "", Len(results), result, model_type)
    /\ env' = [temp_file |-> "deleted"]
    /\ pc' = "done"
    /\ UNCHANGED <<file, df, afterAlias, classified, model_type, required_columns, request,
                   args, result, rows, idx, results>>

UploadCsvNext == CsvReceive \/ CsvProcess \/ CsvInsert \/ CsvReturn

SpecUploadCsv == UploadCsvInit /\ [][UploadCsvNext]_vars

(***************************************************************************)
(* debug_preview_file, next to the preprocessing of /upload                *)
(***************************************************************************)
PreviewWindow == 20    \* start + 20

\* min(len(lines), start + 20)
preview_window_end(lines, start) ==
    IF Len(lines) <= start + PreviewWindow THEN Len(lines) ELSE start + PreviewWindow

PreviewHeader(lines, start) ==
    HeaderOrStart(FindHeader(lines, start, preview_window_end(lines, start)), start)

preview_alias_map(canonical) ==
    CASE canonical = "orbital_period" ->
           <<"orbital_period", "koi_period", "period", "kep_period", "kepoi_period",
             "pl_orbper", "orbper", "per">>
      [] canonical = "transit_duration" ->
           <<"transit_duration", "koi_duration", "duration", "koi_time0bk",
             "pl_trandurh", "pl_trandur", "trandur">>
      [] canonical = "transit_depth" ->
           <<"transit_depth", "koi_depth", "depth", "pl_trandep", "pl_trande">>
      [] canonical = "stellar_radius" ->
           <<"stellar_radius", "koi_srad", "srad", "st_rad", "prad">>

preview_keyword_map(canonical) ==
    CASE canonical = "orbital_period" -> <<"orbper", "orb", "period", "per">>
      [] canonical = "transit_duration" -> <<"trandur", "duration", "dur", "tran">>
      [] canonical = "transit_depth" -> <<"trandep", "depth", "dep">>
      [] canonical = "stellar_radius" -> <<"srad", "rade", "rad", "st_rad", "prad">>

RECURSIVE PreviewAliasLoop(_, _, _)
PreviewAliasLoop(m, rm, c) ==
    IF c > Len(Canonical) THEN rm
    ELSE PreviewAliasLoop(m,
             PutItem(rm, AliasFound(m, preview_alias_map(Canonical[c]), 1), Canonical[c]),
             c + 1)

\* The substring loop of the preview: d (df_renamed) and m (its lower_to_col)
\* stay as they are, the renames are collected in final_map
RECURSIVE FinalMapLoop(_, _, _, _)
FinalMapLoop(d, m, fm, c) ==
    IF c > Len(Canonical) THEN fm
    ELSE IF InCols(Canonical[c], d) THEN FinalMapLoop(d, m, fm, c + 1)
    ELSE FinalMapLoop(d, m,
             PutItem(fm, KeywordFound(m, preview_keyword_map(Canonical[c]), 1), Canonical[c]),
             c + 1)

df_renamed(d) == RenameAll(d, PreviewAliasLoop(lower_to_col(d), <<>>, 1))

df_final(renamed) == RenameAll(renamed, FinalMapLoop(renamed, lower_to_col(renamed), <<>>, 1))

\* The fields of a delimited line
RECURSIVE SplitLine(_, _)
SplitLine(s, field) ==
    IF Len(s) = 0 THEN <<field>>
    ELSE IF SubSeq(s, 1, 1) = "," THEN <<field>> \o SplitLine(Tail(s), "")
    ELSE SplitLine(Tail(s), field \o SubSeq(s, 1, 1))

\* The frame pd.read_csv makes of the cleaned lines: its columns are the fields
\* of the first line (rows are not looked at by either handler's renaming)
HeaderFrame(cleaned) ==
    [i \in 1..Len(SplitLine(cleaned[1], "")) |->
        Col(SplitLine(cleaned[1], "")[i], SplitLine(cleaned[1], "")[i], None)]

\* A later line has more fields than the first: the first read_csv raises and
\* the outcome of the retry with a sniffed separator is left open
Ragged(cleaned) ==
    \E i \in 2..Len(cleaned) : Len(SplitLine(cleaned[i], "")) > Len(SplitLine(cleaned[1], ""))

ReadOutcomes(cleaned) ==
    IF cleaned = <<>> THEN {"raises"}
    ELSE IF Ragged(cleaned) THEN {"raises", "frame"}
    ELSE {"frame"}

Previewed(status, header_idx, final) ==
    [status |-> status, header_line_index |-> header_idx, final_columns |-> final]

\* debug_preview_file for the lines of an upload
debug_preview_file(lines, header_idx, outcome) ==
    IF outcome = "raises" THEN Previewed(500, header_idx, <<>>)
    ELSE Previewed(200, header_idx,
                   columns(df_final(df_renamed(
                       HeaderFrame(SubSeq(lines, header_idx + 1, Len(lines)))))))

PreviewHeaders == {"koi_period,koi_srad", "koi_srad_err1,st_rad", "per_dur,depth",
                   "per,prad", "tranduration,KOI_DEPTH", "note,pl_rade"}

\* Uploads: comment lines, then lines without delimiter, then the header
PreviewUploads ==
    {RepeatLine("# c", c) \o RepeatLine("plain text", n) \o <<h>> :
        c \in {0, 1, 2}, n \in {0, 1, PreviewWindow - 1, PreviewWindow}, h \in PreviewHeaders}
    \cup {RepeatLine("# c", c) : c \in {0, 1}}

PreviewInit ==
    /\ pc = "call"
    /\ args \in PreviewUploads
    /\ file = <<>>
    /\ df = <<>>
    /\ Idle

PreviewCall ==
    /\ pc = "call"
    /\ \E outcome \in ReadOutcomes(SubSeq(args, PreviewHeader(args, SkipComments(args, 0)) + 1,
                                          Len(args))) :
          result' = debug_preview_file(args, PreviewHeader(args, SkipComments(args, 0)), outcome)
    /\ pc' = "previewed"
    /\ UNCHANGED <<file, df, afterAlias, classified, model_type, required_columns, request,
                   response, env, args, rows, idx, results>>

\* The same lines through /upload, up to the end of its substring step
UploadPreprocess ==
    /\ pc = "previewed"
    /\ idx' = LocateHeader(args, SkipComments(args, 0))
    /\ \E outcome \in ReadOutcomes(Located(args, SkipComments(args, 0)).cleaned) :
          IF outcome = "raises"
          THEN /\ response' = Internal("Error procesando archivo")
               /\ UNCHANGED <<file, df, afterAlias>>
          ELSE /\ file' = HeaderFrame(Located(args, SkipComments(args, 0)).cleaned)
               /\ afterAlias' =
                     ApplyAliases(HeaderFrame(Located(args, SkipComments(args, 0)).cleaned))
               /\ df' = ApplyKeywords(ApplyAliases(
                            HeaderFrame(Located(args, SkipComments(args, 0)).cleaned)))
               /\ UNCHANGED response
    /\ pc' = "return"
    /\ UNCHANGED <<classified, model_type, required_columns, request, env, args, result,
                   rows, results>>

PreviewNext == PreviewCall \/ UploadPreprocess

SpecPreview == PreviewInit /\ [][PreviewNext]_vars

(***************************************************************************)
(* /predict and /predict-with-model called on their own                    *)
(***************************************************************************)
\* Request bodies: the two optional geometry fields absent or given, the two
\* stellar fields absent, zero, or given
PredictRequests ==
    [orbital_period : {Num(1230000)},
     transit_duration : {None, Num(250000)},
     transit_depth : {None, Num(1000)},
     stellar_radius : {Num(95000)},
     stellar_mass : {None, Num(0), Num(80000), Num(100000)},
     stellar_temperature : {None, Num(0), Num(5000 * Scale), Num(5778 * Scale)}]

\* The features array the handler builds for model ("" for /predict)
FeaturesFor(req, model) == IF model = "" THEN FeaturesOr(req) ELSE FeaturesRaw(req)

PredictInit ==
    /\ pc = "call"
    /\ args \in [request : PredictRequests, model : {"", "kepler", "k2"}]
    /\ file = <<>>
    /\ df = <<>>
    /\ Idle

PredictCall ==
    /\ pc = "call"
    /\ \E e \in Envs :
          /\ env' = e
          /\ response' = predict_with_model(args.request, args.model, e)
    /\ result' = FeaturesFor(args.request, args.model)
    /\ pc' = "return"
    /\ UNCHANGED <<file, df, afterAlias, classified, model_type, required_columns, request,
                   args, rows, idx, results>>

SpecPredict == PredictInit /\ [][PredictCall]_vars

(***************************************************************************)
(* aplicar_correcciones_post_prediccion (modelo_final/predictor.py)        *)
(***************************************************************************)
\* modelo.classes_, the key order of probabilidades
Classes == <<"CANDIDATE", "CONFIRMED", "FALSE POSITIVE">>

\* A key a dict may lack holds <<>> when absent and <<v>> when it is v
Absent == <<>>

\* datos_entrada.get(key, default)
Get(value, default) == IF value = Absent THEN default ELSE value[1]

\* Probabilities in percent; period, snr and radius in tenths; depth in ppm
MaxOf(p) == CHOOSE x \in {p[c] : c \in DOMAIN p} : \A c \in DOMAIN p : p[c] <= x

\* modelo.predict: the first class, in classes_ order, of the highest probability
ArgMax(p) ==
    Classes[CHOOSE i \in 1..Len(Classes) :
               /\ p[Classes[i]] = MaxOf(p)
               /\ \A j \in 1..(i - 1) : p[Classes[j]] # MaxOf(p)]

\* The place of class i in sorted(probabilidades.items(), key=prob, reverse=True):
\* the sort is stable, so equal probabilities keep their classes_ order
Place(p, i) ==
    1 + Cardinality({j \in 1..Len(Classes) :
                        \/ p[Classes[j]] > p[Classes[i]]
                        \/ (p[Classes[j]] = p[Classes[i]] /\ j < i)})

\* probabilidades_ordenadas[1][0]
segunda_mejor_clase(p) == Classes[CHOOSE i \in 1..Len(Classes) : Place(p, i) = 2]

condiciones_confirmed_tess(snr, depth, period, radius, confianza) ==
    snr > 150 /\ depth > 800 /\ period > 50 /\ 8 < radius /\ radius < 25 /\ confianza > 30

\* Doubt that does not look at the confidence
DudosasWithoutConfidence(period, snr, radius, confianza) ==
    period < 50 \/ snr < 100 \/ radius < 10 \/ radius > 150

condiciones_dudosas_k2(period, snr, radius, confianza) ==
    period < 50 \/ snr < 100 \/ radius < 10 \/ radius > 150 \/ confianza < 80

Unchanged(original) == [nueva |-> original, aplicada |-> FALSE, rule |-> 0]
Changed(nueva, rule) == [nueva |-> nueva, aplicada |-> TRUE, rule |-> rule]

\* The if / elif chain: the branch is chosen by its outer condition, and a branch
\* whose inner condition fails corrects nothing
Correccion(telescopio, original, p, confianza, d) ==
    IF telescopio = "tess" /\ original = "CANDIDATE" /\ p["CONFIRMED"] > 20
    THEN (IF condiciones_confirmed_tess(Get(d.snr, 0), Get(d.depth, 0), Get(d.period, 0),
                                        Get(d.radius, 0), confianza)
          THEN Changed("CONFIRMED", 1) ELSE Unchanged(original))
    ELSE IF telescopio = "k2" /\ original = "CONFIRMED"
    THEN (IF condiciones_dudosas_k2(Get(d.period, 10000), Get(d.snr, 0), Get(d.radius, 0),
                                    confianza)
          THEN (IF p["CANDIDATE"] > p["FALSE POSITIVE"]
                THEN Changed("CANDIDATE", 2) ELSE Changed("FALSE POSITIVE", 2))
          ELSE Unchanged(original))
    ELSE IF original = "CONFIRMED" /\ confianza < 60 /\ MaxOf(p) < 70
    THEN (IF p[segunda_mejor_clase(p)] > 30
          THEN Changed(segunda_mejor_clase(p), 3) ELSE Unchanged(original))
    ELSE IF original = "FALSE POSITIVE" /\ p["CANDIDATE"] > 40
    THEN (IF Get(d.depth, 0) > 500 /\ Get(d.period, 0) > 30 /\ Get(d.snr, 0) > 100
          THEN Changed("CANDIDATE", 4) ELSE Unchanged(original))
    ELSE Unchanged(original)

\* An update that keeps the confidence of the original label
ActualizarKeepingConfidence(r, c) ==
    IF c.aplicada
    THEN [prediccion |-> c.nueva, prediccion_original |-> r.prediccion,
          correccion_aplicada |-> TRUE, rule |-> c.rule,
          confianza |-> r.confianza, confianza_corregida |-> <<r.confianza>>,
          probabilidades |-> r.probabilidades]
    ELSE [prediccion |-> r.prediccion, prediccion_original |-> "",
          correccion_aplicada |-> FALSE, rule |-> 0,
          confianza |-> r.confianza, confianza_corregida |-> Absent,
          probabilidades |-> r.probabilidades]

\* "Actualizar el resultado si hubo correccion": keys the dict does not get are
\* "" and Absent
Actualizar(r, c) ==
    IF c.aplicada
    THEN [prediccion |-> c.nueva, prediccion_original |-> r.prediccion,
          correccion_aplicada |-> TRUE, rule |-> c.rule,
          confianza |-> r.confianza, confianza_corregida |-> <<r.probabilidades[c.nueva]>>,
          probabilidades |-> r.probabilidades]
    ELSE [prediccion |-> r.prediccion, prediccion_original |-> "",
          correccion_aplicada |-> FALSE, rule |-> 0,
          confianza |-> r.confianza, confianza_corregida |-> Absent,
          probabilidades |-> r.probabilidades]

aplicar_correcciones_post_prediccion(telescopio, r, d) ==
    Actualizar(r, Correccion(telescopio, r.prediccion, r.probabilidades, r.confianza, d))

\* predict_proba in steps of ten percent
Distributions ==
    {p \in [{"CANDIDATE", "CONFIRMED", "FALSE POSITIVE"} -> {0, 10, 20, 30, 40, 50, 60, 70, 80, 90, 100}] :
        p["CANDIDATE"] + p["CONFIRMED"] + p["FALSE POSITIVE"] = 100}

\* The result of predecir_exoplaneta for a distribution
Resultado(p) == [prediccion |-> ArgMax(p), probabilidades |-> p, confianza |-> MaxOf(p)]

DatosEntrada ==
    [period : {Absent, <<49>>, <<50>>, <<60>>}, snr : {Absent, <<99>>, <<100>>, <<160>>},
     radius : {Absent, <<9>>, <<10>>, <<150>>, <<151>>},
     depth : {Absent, <<500>>, <<801>>}]

CorrectInit ==
    /\ pc = "call"
    /\ args \in [telescopio : {"kepler", "k2", "tess"},
                 resultado : {Resultado(p) : p \in Distributions},
                 datos : DatosEntrada]
    /\ file = <<>>
    /\ df = <<>>
    /\ Idle

CorrectCall ==
    /\ pc = "call"
    /\ result' = aplicar_correcciones_post_prediccion(args.telescopio, args.resultado,
                                                      args.datos)
    /\ pc' = "return"
    /\ UNCHANGED <<file, df, afterAlias, classified, model_type, required_columns, request,
                   response, env, args, rows, idx, results>>

SpecCorrect == CorrectInit /\ [][CorrectCall]_vars

(***************************************************************************)
(* Disposition labels of training (modelo_final/data_loader.py) next to    *)
(* those of the dashboard                                                  *)
(***************************************************************************)
\* df['disposition'].replace({...}) for telescopio == "tess"
ReplaceTess(x) ==
    CASE x \in {"PC", "APC"} -> "CANDIDATE"
      [] x \in {"CP", "KP"} -> "CONFIRMED"
      [] x \in {"FP", "FA"} -> "FALSE POSITIVE"
      [] OTHER -> x

\* lambda x: x if x in mapeadas else 'CANDIDATE'
Mapeada(x) == IF x \in {"CONFIRMED", "CANDIDATE", "FALSE POSITIVE"} THEN x ELSE "CANDIDATE"

\* fillna('') of an object column
FillEmpty(c) == IF c.k = "str" THEN c.s ELSE ""

\* The disposition preprocesar_telescopio(df, "tess") gives a cell
preprocesar_telescopio(c) == Mapeada(ReplaceTess(FillEmpty(c)))

LabelsInit ==
    /\ pc = "call"
    /\ args \in RawLabels
    /\ file = <<>>
    /\ df = <<>>
    /\ Idle

\* The same tfopwg_disp cell through the dashboard and through training
LabelsCall ==
    /\ pc = "call"
    /\ result' = [dashboard |-> normalize_disp(vals(args)),
                  training |-> preprocesar_telescopio(args)]
    /\ pc' = "return"
    /\ UNCHANGED <<file, df, afterAlias, classified, model_type, required_columns, request,
                   response, env, args, rows, idx, results>>

SpecLabels == LabelsInit /\ [][LabelsCall]_vars

(***************************************************************************)
(* The two schema classifiers on the same header                           *)
(***************************************************************************)
MaxClassifyCols == 3

\* Marker columns of the three missions, columns that decide only together,
\* and columns in upper case
ClassifyVocab == {"toi", "kepid", "pl_name", "pl_orbper", "pl_rade", "koi_period",
                  "koi_prad", "v_mag", "TESS_MAG", "Duration", "koi_disposition"}

ClassifyInit ==
    /\ pc = "call"
    /\ args \in InjSeqs(ClassifyVocab, MaxClassifyCols)
    /\ file = <<>>
    /\ df = <<>>
    /\ Idle

\* detect_model_type(df.columns) and CSVExoplanetMapper.detect_mission_type(df)
ClassifyCall ==
    /\ pc = "call"
    /\ result' = [model |-> detect_model_type(args), mission |-> detect_mission_type(args)]
    /\ pc' = "return"
    /\ UNCHANGED <<file, df, afterAlias, classified, model_type, required_columns, request,
                   response, env, args, rows, idx, results>>

SpecClassify == ClassifyInit /\ [][ClassifyCall]_vars

(***************************************************************************)
(* Properties                                                              *)
(***************************************************************************)
PlanetRadiusOnly == {"pl_rade", "koi_prad"}

CanonicalSet == {Canonical[i] : i \in 1..Len(Canonical)}

\* C1: in the substring fallback, when the upload has no stellar-radius column
\* (none matched a stellar_radius alias), a column holding only a planet radius
\* (pl_rade, koi_prad) is never renamed to stellar_radius.
C1_PlanetRadiusNeverStellar ==
    (pc = "derive" /\ ~InCols("stellar_radius", afterAlias))
        => \A i \in 1..Len(df) :
              df[i].name = "stellar_radius" => df[i].src \notin PlanetRadiusOnly

\* C2: every canonical column present after the alias step is still present
\* after the substring fallback, under the same name and bound to the same
\* source column.
C2_CanonicalKept ==
    pc = "derive"
        => \A i \in 1..Len(afterAlias) :
              afterAlias[i].name \in CanonicalSet
                  => /\ df[i].name = afterAlias[i].name
                     /\ df[i].src = afterAlias[i].src

\* Some column name of cs contains the marker k (letter case ignored)
HasMarker(cs, k) == \E i \in 1..Len(cs) : Contains(Lower(cs[i]), k)

\* C3: detect_model_type answers k2 when some column name contains v_mag or
\* star_mass and none contains tess_mag; otherwise tess when some name contains
\* tess_mag; otherwise kepler when some name contains duration,
\* impact_parameter or snr and none contains v_mag or tess_mag; and it answers
\* exactly one of the three schemas for every column set.
C3_PriorityOrder ==
    pc = "return"
        => /\ result \in {"k2", "tess", "kepler"}
           /\ IF (HasMarker(args, "v_mag") \/ HasMarker(args, "star_mass"))
                 /\ ~HasMarker(args, "tess_mag")
              THEN result = "k2"
              ELSE IF HasMarker(args, "tess_mag")
              THEN result = "tess"
              ELSE IF (HasMarker(args, "duration") \/ HasMarker(args, "impact_parameter")
                       \/ HasMarker(args, "snr"))
                      /\ ~HasMarker(args, "v_mag") /\ ~HasMarker(args, "tess_mag")
              THEN result = "kepler"
              ELSE TRUE

\* A column set with a K2 marker and a TESS marker was classified as tess
C3_Witness ==
    /\ pc = "return"
    /\ HasMarker(args, "v_mag")
    /\ HasMarker(args, "tess_mag")
    /\ result = "tess"

NoMarkers(cs) ==
    \A k \in {"v_mag", "star_mass", "tess_mag", "duration", "impact_parameter", "snr"} :
        ~HasMarker(cs, k)

KeplerRequired ==
    <<"period", "duration", "depth", "radius", "teq", "star_radius", "logg",
      "impact_parameter", "insolation", "snr", "period_duration_ratio", "transit_snr",
      "depth_duration_ratio", "radius_ratio">>

\* C4, as the code has it: when the classified column set contains none of the
\* mission markers, upload takes the schema to be kepler and requires the
\* fourteen Kepler columns.
C4_NoMarkersIsKepler ==
    (pc \in {"build", "predict", "done"} /\ NoMarkers(classified))
        => /\ model_type = "kepler"
           /\ required_columns = KeplerRequired

\* An upload without any marker column was classified and rejected for the
\* Kepler columns it lacks
C4_Witness ==
    /\ pc = "done"
    /\ Len(classified) > 0
    /\ NoMarkers(classified)
    /\ model_type = "kepler"
    /\ response.error = "missing_columns"
    /\ response.required_columns = KeplerRequired

\* C4, as stated: when the classified column set contains none of the mission
\* markers, the schema is a value distinct from the three missions and upload
\* requires only the four canonical columns.
C4_NoMarkersIsGeneric ==
    (pc \in {"build", "predict", "done"} /\ NoMarkers(classified))
        => /\ model_type \notin {"k2", "tess", "kepler"}
           /\ required_columns = Canonical

Geometry == {"orbital_period", "transit_duration", "transit_depth"}

\* The file column that map_row_to_features reads for a geometry field
GeometryColumn(f) ==
    CASE f = "orbital_period" -> "koi_period"
      [] f = "transit_duration" -> "koi_duration"
      [] f = "transit_depth" -> "koi_depth"

\* Row i of the batch file f has a number written under the column of field g
HasNumber(f, i, g) ==
    \E j \in 1..Len(f.header) :
        f.header[j] = GeometryColumn(g) /\ ParseFloat(f.cells[i][j])[1]

\* Row i of the batch file f has text that is no number under koi_period
HasTextPeriod(f, i) ==
    \E j \in 1..Len(f.header) :
        /\ f.header[j] = "koi_period"
        /\ f.cells[i][j] # ""
        /\ ~ParseFloat(f.cells[i][j])[1]

\* C5: on the predict-batch path a missing or non-numeric orbital_period,
\* transit_duration or transit_depth of a row is never replaced by a default
\* number in that row's feature vector.
C5_NoSilentGeometryDefault ==
    (pc = "done" /\ response.status = 200)
        => \A i \in 1..Len(results) : \A g \in Geometry :
              ~HasNumber(file, i, g) => results[i].input[g].k # "num"

\* C6: predict-batch on a file of N rows of which exactly one has a
\* non-numeric orbital_period (the others hold numbers) returns N-1 predictions
\* and exactly one row-level error entry.
C6_OneErrorEntry ==
    (/\ pc = "done"
     /\ Cardinality({i \in 1..Len(file.cells) : HasTextPeriod(file, i)}) = 1
     /\ \A i \in 1..Len(file.cells) :
           HasTextPeriod(file, i) \/ HasNumber(file, i, "orbital_period"))
        => /\ response.status = 200
           /\ Cardinality({i \in 1..Len(results) : results[i].prediction \in Labels})
                 = Len(file.cells) - 1
           /\ Cardinality({i \in 1..Len(results) : results[i].prediction \notin Labels})
                 = 1

\* float(val) succeeds
Coercible(val) == val.k = "num" \/ (val.k = "str" /\ val.s # "" /\ ParseFloat(val.s)[1])

\* The single-row derivation of a field worked on row r
Derived(f, r) ==
    \/ f = "transit_depth" /\ compute_transit_depth_from_row(r).k = "num"
    \/ f = "transit_duration" /\ compute_transit_duration_from_row(r).k = "num"

DerivedValue(f, r) ==
    IF f = "transit_depth" THEN compute_transit_depth_from_row(r).v
    ELSE compute_transit_duration_from_row(r).v

\* C7: safe_float(val, field, default) returns (1) a present, coercible value
\* as a float; (2) for a missing, empty or NaN transit_depth or
\* transit_duration the single-row derivation when it succeeds; (3) otherwise
\* the caller's default when one is supplied; (4) otherwise it fails with
\* missing_value carrying the field name and the row snapshot.  A default is
\* never used when (1) or (2) gives a value.
C7_SafeFloatPolicy ==
    pc = "return"
        => /\ Coercible(args[1])
                 => result = Ok(IF args[1].k = "num" THEN args[1].v
                                ELSE ParseFloat(args[1].s)[2])
           /\ (IsMissing(args[1]) /\ Derived(args[2], args[4]))
                 => result = Ok(DerivedValue(args[2], args[4]))
           /\ (IsMissing(args[1]) /\ ~Derived(args[2], args[4]) /\ args[3].k # "none")
                 => result = Ok(args[3].v)
           /\ (IsMissing(args[1]) /\ ~Derived(args[2], args[4]) /\ args[3].k = "none")
                 => /\ result.t = "error"
                    /\ result.error = "missing_value"
                    /\ result.field = args[2]
                    /\ result.row_sample = row_sample(args[4])

\* A missing transit_depth was derived from the row although the caller
\* supplied a different default
C7_Witness ==
    /\ pc = "return"
    /\ args[1] = NaN
    /\ args[2] = "transit_depth"
    /\ args[3] = Num(Scale)
    /\ Derived("transit_depth", args[4])
    /\ result = Ok(DerivedValue("transit_depth", args[4]))
    /\ result # Ok(Scale)

\* The cell the upload holds under the source column of the data frame's
\* column n
SourceCell(n) == Cell(file, ColAt(df, n).src)

\* The required fields the row validator coerces whose column comes from the file
ValidatedFields ==
    {f \in CanonicalSet : /\ \E i \in 1..Len(CoercedFields(model_type)) :
                                CoercedFields(model_type)[i] = f
                          /\ InCols(f, df)
                          /\ InCols(ColAt(df, f).src, file)}

NonCoercible(c) == c.k = "str" /\ c.s # "" /\ ~ParseFloat(c.s)[1]

\* C8: an upload that reaches row validation with exactly one required field
\* whose first-row value is text that is no number (every other required field
\* holding a number) fails with invalid_number carrying that field, the raw
\* value and the row snapshot.
C8_InvalidNumber ==
    (/\ pc = "done"
     /\ response.error # "missing_columns"
     /\ ValidatedFields = CanonicalSet
     /\ Cardinality({f \in ValidatedFields : NonCoercible(SourceCell(f))}) = 1
     /\ \A f \in ValidatedFields : NonCoercible(SourceCell(f)) \/ SourceCell(f).k = "num")
        => /\ response.status = 400
           /\ response.error = "invalid_number"
           /\ response.field \in ValidatedFields
           /\ NonCoercible(SourceCell(response.field))
           /\ response.value = SourceCell(response.field)
           /\ response.row_sample # <<>>

\* C9: on the upload path a first-row transit_depth greater than 1.0 reaches
\* the feature vector divided by 1e6, and one of at most 1.0 unchanged.
C9_PpmConvertedOnce ==
    (/\ pc \in {"predict", "done"}
     /\ request.transit_depth.k = "num"
     /\ InCols("transit_depth", df)
     /\ InCols(ColAt(df, "transit_depth").src, file)
     /\ SourceCell("transit_depth").k = "num")
        => request.transit_depth =
              IF SourceCell("transit_depth").v > Scale
              THEN Num(SourceCell("transit_depth").v \div PpmDivisor)
              ELSE SourceCell("transit_depth")

\* C10: the upload with only the columns koi_period, koi_duration, koi_depth,
\* koi_srad and the row (12.3, 2.5, 1500, 0.95) is classified kepler, has the
\* four canonical columns, and ends with the feature vector 12.3, 2.5, 0.0015,
\* 0.95 and not with an error.
C10_ScenarioA ==
    (pc = "done" /\ file = NominalFrame(ScenarioA))
        => /\ model_type = "kepler"
           /\ \A c \in CanonicalSet : InCols(c, df)
           /\ response.status = 200
           /\ response.features_analyzed.orbital_period = Num(1230000)
           /\ response.features_analyzed.transit_duration = Num(250000)
           /\ response.features_analyzed.transit_depth = Num(150)
           /\ response.features_analyzed.stellar_radius = Num(95000)

\* The line at index j (from 0) holds a comma, a tab or a canonical keyword
HeaderLike(lines, j) ==
    \/ \E i \in 1..Len(lines[j + 1]) : SubSeq(lines[j + 1], i, i) \in {",", "\t"}
    \/ \E c \in CanonicalSet : Contains(Lower(lines[j + 1]), c)

\* The indices of the window of the locator
Window(lines, start) ==
    {j \in start..(start + 199) : j < Len(lines)}

\* C11: the header locator returns the smallest index j with
\* start <= j < min(number of lines, start + 200) whose line holds a comma, a
\* tab or a canonical keyword (letter case ignored), and start when the window
\* has no such line; start <= header index always.
C11_HeaderLocator ==
    pc = "return"
        => /\ result.start <= result.header_idx
           /\ IF \E j \in Window(args, result.start) : HeaderLike(args, j)
              THEN /\ result.header_idx \in Window(args, result.start)
                   /\ HeaderLike(args, result.header_idx)
                   /\ \A j \in Window(args, result.start) :
                         HeaderLike(args, j) => result.header_idx <= j
              ELSE result.header_idx = result.start

\* A header line was found after start, and a file had its only delimited line
\* beyond the window
C11_Witness ==
    /\ pc = "return"
    /\ \/ result.header_idx > result.start
       \/ /\ Len(args) > 200
          /\ HeaderLike(args, Len(args) - 1)
          /\ result.header_idx = result.start

\* The line at index j (from 0) is blank or a comment
Skippable(lines, j) ==
    \/ \A i \in 1..Len(lines[j + 1]) : SubSeq(lines[j + 1], i, i) \in {" ", "\t"}
    \/ \E i \in 1..Len(lines[j + 1]) :
          /\ SubSeq(lines[j + 1], i, i) = "#"
          /\ \A h \in 1..(i - 1) : SubSeq(lines[j + 1], h, h) \in {" ", "\t"}

\* The stripper's start is the least index whose line is neither blank nor a
\* comment, and stripper and locator give indices within the file
StripperLeast ==
    pc # "call"
        => /\ result.start \in 0..Len(args)
           /\ \A j \in 0..(result.start - 1) : Skippable(args, j)
           /\ result.start < Len(args) => ~Skippable(args, result.start)
           /\ result.header_idx \in result.start..Len(args)

\* C12: the comment stripper returns the least index whose line is neither
\* blank nor a comment: every line before start is blank or a comment and the
\* line at start, when there is one, is neither.  It has no failure mode: for
\* every input, one where every line is blank or a comment included, the
\* processing of the upload goes on from the stripper's and locator's result
\* and does not abort.
C12_NoFailureMode ==
    /\ StripperLeast
    /\ pc \in {"done", "frame"} => pc = "frame" /\ response.status # 500

\* The alias step on a file whose column names in lower case are low: per
\* canonical name c, present[c] are the positions of its aliases that name a
\* column, chosen[c] is the first of them in list order, and renamed[c] are the
\* columns with an alias of c for a name that are called c after the step
AliasStepOn(low, present, chosen, renamed) ==
    /\ Len(afterAlias) = Len(file)
    /\ \A c \in CanonicalSet :
          /\ Cardinality(renamed[c]) <= 1
          /\ present[c] = {} => renamed[c] = {}
          /\ present[c] # {} => \E i \in renamed[c] : low[i] = chosen[c]
    /\ \A i \in 1..Len(file) :
          /\ Cardinality({c \in CanonicalSet : i \in renamed[c]}) <= 1
          /\ afterAlias[i].val = file[i].val
          /\ (\A c \in CanonicalSet : low[i] # chosen[c])
                => afterAlias[i].name = file[i].name

FirstPosition(positions) ==
    IF positions = {} THEN 0 ELSE CHOOSE j \in positions : \A k \in positions : j <= k

AliasesPresent(low) ==
    [c \in CanonicalSet |->
        {j \in 1..Len(alias_map(c)) : \E i \in 1..Len(low) : low[i] = alias_map(c)[j]}]

ChosenAlias(present) ==
    [c \in CanonicalSet |->
        IF present[c] = {} THEN "" ELSE alias_map(c)[FirstPosition(present[c])]]

RenamedTo(low) ==
    [c \in CanonicalSet |->
        {i \in 1..Len(low) :
            /\ afterAlias[i].name = c
            /\ \E j \in 1..Len(alias_map(c)) : low[i] = alias_map(c)[j]}]

\* C13: in the alias step, for each canonical column the source column renamed
\* is the first alias in list order that is present in the file (letter case
\* ignored); at most one source column is renamed per canonical name, no source
\* column is renamed to two canonical names, and every column that matches no
\* chosen alias keeps its name.
C13_AliasStep ==
    pc = "keywords"
        => AliasStepOn(LowerNames(file),
                       AliasesPresent(LowerNames(file)),
                       ChosenAlias(AliasesPresent(LowerNames(file))),
                       RenamedTo(LowerNames(file)))

\* A file with two aliases of orbital_period, the later one first, and a column
\* that is no alias went through the alias step
C13_Witness ==
    /\ pc = "keywords"
    /\ Len(file) = 3
    /\ file[1].name = "pl_orbper"
    /\ file[2].name = "koi_period"
    /\ file[3].name = "pl_rade"
    /\ afterAlias[1].name = "pl_orbper"
    /\ afterAlias[2].name = "orbital_period"
    /\ afterAlias[3].name = "pl_rade"

\* The cell is no number: an absent column, an empty cell or text
MissingCell(c) == c.k # "num"

\* The readings of "the planet radius" of a row: the pl_rade column, the
\* pl_radj column as it stands, and the pl_radj column in Earth radii
PlanetRadiusReadings(r) ==
    {IF InCols("pl_rade", r) THEN Cell(r, "pl_rade") ELSE None,
     IF InCols("pl_radj", r) THEN Cell(r, "pl_radj") ELSE None,
     IF InCols("pl_radj", r) /\ Cell(r, "pl_radj").k = "num"
     THEN Num((Cell(r, "pl_radj").v * 11209) \div 1000) ELSE None}

\* The stellar radius of a row after the column mapper
StellarRadiusOf(r) == IF InCols("stellar_radius", r) THEN Cell(r, "stellar_radius") ELSE None

\* The depth the derivation is to yield for the two radii
ExpectedDepth(pr, sr, derived) ==
    IF MissingCell(pr) \/ MissingCell(sr) \/ sr.v = 0
    THEN MissingCell(derived)
    ELSE derived = Num(DepthFormula(pr.v, sr.v))

\* C14: the transit-depth derivation, in its bulk form and in its single-row
\* form, yields missing (never zero, never infinite) whenever the stellar radius
\* is 0 or the planet radius or the stellar radius is missing or unparseable,
\* and (planet_radius * 0.009155 / stellar_radius)^2 otherwise, for the planet
\* radius of the row on one of its readings.
C14_DepthDerivation ==
    pc = "return"
        => \E pr \in PlanetRadiusReadings(result.row) :
              /\ ExpectedDepth(pr, StellarRadiusOf(result.row), result.bulk_depth)
              /\ ExpectedDepth(pr, StellarRadiusOf(result.row), result.row_depth)

\* Both forms yield missing, not zero, when the stellar radius is 0 or missing
DepthGuarded ==
    pc = "return"
        => \A derived \in {result.bulk_depth, result.row_depth} :
              (MissingCell(StellarRadiusOf(result.row)) \/ StellarRadiusOf(result.row).v = 0)
                  => MissingCell(derived)

\* The orbital period of a row after the column mapper
PeriodOf(r) == IF InCols("orbital_period", r) THEN Cell(r, "orbital_period") ELSE None

\* C15: for every row the bulk and the single-row transit-duration derivations
\* agree: they yield the same duration or both yield missing (each with the
\* supplied semi-major axis when the row has one, else with (period/365.25)^(2/3)),
\* and both yield missing when the period is missing or zero or the stellar
\* radius is missing or zero.
C15_DurationFormsAgree ==
    pc = "return"
        => /\ \/ MissingCell(result.bulk_duration) /\ MissingCell(result.row_duration)
              \/ result.bulk_duration = result.row_duration
           /\ (\/ MissingCell(PeriodOf(result.row)) \/ PeriodOf(result.row).v = 0
               \/ MissingCell(StellarRadiusOf(result.row))
               \/ StellarRadiusOf(result.row).v = 0)
                 => MissingCell(result.bulk_duration) /\ MissingCell(result.row_duration)

\* The two forms agree on the rows whose stellar radius is a number other than
\* zero and whose semi-major axis is absent or a number other than zero
DurationAgreeOnNumbers ==
    (/\ pc = "return"
     /\ ~MissingCell(StellarRadiusOf(result.row)) /\ StellarRadiusOf(result.row).v # 0
     /\ InCols("pl_orbsmax", result.row)
           => Cell(result.row, "pl_orbsmax").k = "num" /\ Cell(result.row, "pl_orbsmax").v # 0)
        => \/ MissingCell(result.bulk_duration) /\ MissingCell(result.row_duration)
           \/ result.bulk_duration = result.row_duration

\* The exact-code table, then the substring fallback in the order FALSE,
\* CANDID, CONFIR, then the label itself
TableThenSubstring(s) ==
    CASE s \in {"CONFIRMED", "CONFIRMED_PLANET", "CP", "KP"} -> "CONFIRMED"
      [] s \in {"CANDIDATE", "PC", "PC?"} -> "CANDIDATE"
      [] s \in {"FALSE POSITIVE", "FALSE_POSITIVE", "FP"} -> "FALSE POSITIVE"
      [] OTHER -> IF \E i \in 1..Len(s) : i + 4 <= Len(s) /\ SubSeq(s, i, i + 4) = "FALSE"
                  THEN "FALSE POSITIVE"
                  ELSE IF \E i \in 1..Len(s) : i + 5 <= Len(s) /\ SubSeq(s, i, i + 5) = "CANDID"
                  THEN "CANDIDATE"
                  ELSE IF \E i \in 1..Len(s) : i + 5 <= Len(s) /\ SubSeq(s, i, i + 5) = "CONFIR"
                  THEN "CONFIRMED"
                  ELSE s

\* C16: normalize_disp consults the exact-code table first, then the substring
\* fallback in the order FALSE, CANDID, CONFIR, and otherwise returns its input
\* unchanged, for every input string.
C16_TableThenSubstring ==
    pc = "return" => result.mapped = TableThenSubstring(result.s)

\* C16, amended: the empty string and NAN give the empty string; every other
\* input goes through the exact-code table, then the substring fallback in the
\* order FALSE, CANDID, CONFIR, and is otherwise returned unchanged.
C16_EmptyThenTable ==
    pc = "return"
        => result.mapped = IF result.s \in {"", "NAN"} THEN ""
                           ELSE TableThenSubstring(result.s)

\* A label with both FALSE and CONFIR gave FALSE POSITIVE
C16_Witness ==
    /\ pc = "return"
    /\ args = Str("false confirmation")
    /\ result.s = "FALSE CONFIRMATION"
    /\ result.mapped = "FALSE POSITIVE"

DeepAndShort(features) ==
    /\ features[3].k = "num" /\ features[3].v > 1000
    /\ features[1].k = "num" /\ features[1].v < 5000000

\* transit_depth > 0.005
Deep(features) == features[3].k = "num" /\ features[3].v > 500

\* The probability a distribution gives to a label
ProbabilityOf(dist, label) ==
    CASE label = "exoplanet" -> dist.exoplanet
      [] label = "candidate" -> dist.candidate
      [] label = "false_positive" -> dist.false_positive

\* C18: dummy_prediction gives a result for every vector of the six scalar
\* features: exoplanet with confidence 0.85 exactly when transit_depth > 0.01
\* and orbital_period < 50; otherwise candidate with confidence 0.70 exactly
\* when transit_depth > 0.005; otherwise false_positive with confidence 0.80.
\* The confidence is the probability of the returned label, which is the
\* largest of the three, and the three probabilities sum to 1.
C18_DummyPrediction ==
    pc = "return"
        => /\ result.prediction \in {"exoplanet", "candidate", "false_positive"}
           /\ result.prediction = "exoplanet" <=> DeepAndShort(args)
           /\ result.prediction = "candidate" <=> (~DeepAndShort(args) /\ Deep(args))
           /\ result.prediction = "false_positive" <=> (~DeepAndShort(args) /\ ~Deep(args))
           /\ result.prediction = "exoplanet" => result.confidence = 85000
           /\ result.prediction = "candidate" => result.confidence = 70000
           /\ result.prediction = "false_positive" => result.confidence = 80000
           /\ result.confidence = ProbabilityOf(result.prob_dist, result.prediction)
           /\ \A l \in {"exoplanet", "candidate", "false_positive"} :
                 ProbabilityOf(result.prob_dist, l) <= result.confidence
           /\ result.prob_dist.exoplanet + result.prob_dist.candidate
                 + result.prob_dist.false_positive = 100000

\* A depth of exactly 0.01 with a short period gave candidate
C18_Witness ==
    /\ pc = "return"
    /\ args[3] = Num(1000)
    /\ args[1] = Num(1230000)
    /\ result.prediction = "candidate"
    /\ result.confidence = 70000

\* The upload reached predict_with_model and got its response
UploadPredicted ==
    pc = "done" /\ request # NoRequest

\* The response is the prediction of the rule-based predictor for the request
\* (float(None) of an absent duration or depth aside)
RuleBasedResponse ==
    /\ response.error # "model_unavailable"
    /\ (request.transit_duration.k # "none" /\ request.transit_depth.k # "none")
          => /\ response.status = 200
             /\ response.prediction = dummy_prediction(FeaturesRaw(request)).prediction
             /\ response.confidence = dummy_prediction(FeaturesRaw(request)).confidence

\* C19: whenever the named model cannot be found or loaded, or its prediction
\* call fails, predict-with-model (and upload, which calls it with the detected
\* model) falls back to the rule-based predictor and returns a prediction; it
\* never returns an error because the model is unavailable.
C19_FallbackToRules ==
    (UploadPredicted /\ (~env.loaded \/ ~env.answer.ok)) => RuleBasedResponse

\* The fallback is taken when a loaded model's prediction call fails
FallbackWhenCallFails ==
    (UploadPredicted /\ env.loaded /\ ~env.answer.ok) => RuleBasedResponse

\* The upload handler is past its required-columns check
ColumnsChecked == pc \in {"build", "predict", "done"}

\* The required columns that are no column of the frame, in required order
RECURSIVE AbsentFrom(_, _)
AbsentFrom(required, i) ==
    IF i > Len(required) THEN <<>>
    ELSE (IF \E j \in 1..Len(df) : df[j].name = required[i] THEN <<>> ELSE <<required[i]>>)
         \o AbsentFrom(required, i + 1)

HintedRecords ==
    /\ pc = "insert"
    /\ args.mission_type \in DOMAIN mission_mappings

\* Every record was produced by mapping m and carries the label of mission h
MappedAs(m, h) ==
    /\ classified = m
    /\ model_type = h
    /\ \A i \in 1..Len(results) :
          /\ results[i].mission = mission_mappings[h].mission
          /\ results[i].discoveryYear = extract_discovery_year(m)
          /\ SubSeq(results[i].id, 1, Len(m) + 1) = m \o "-"

\* C21 as stated: with a hint that names a supported mission, the column
\* mapping applied to every row and the mission label of every record are
\* those of the hinted mission, whatever the file's columns are.
C21_HintDecidesMapping ==
    HintedRecords => MappedAs(args.mission_type, args.mission_type)

\* C21: with a hint that names a supported mission no classification is run and
\* every record carries the hinted mission's label; the column mapping is the
\* hinted mission's unless the file has one of the generic columns (name,
\* orbital_period, transit_duration, transit_depth, stellar_radius), and then
\* it is the generic mapping.
C21_HintDecidesLabel ==
    HintedRecords
        => MappedAs(IF LowerSet(file.header) \cap GenericColumns # {}
                    THEN "unknown" ELSE args.mission_type,
                    args.mission_type)

\* A hint that contradicts the classifier, on a file with a generic column
C21_Witness ==
    /\ HintedRecords
    /\ args.mission_type = "kepler"
    /\ detect_mission_type(file.header) = "tess"
    /\ classified = "unknown"
    /\ Len(results) = 2
    /\ results[1].mission = "Kepler"

\* The rows of the frame that map under mapping m with the draws rnd
MappingRows(frame, m, rnd) ==
    {i \in 1..Len(frame) : map_row_to_exoplanet(frame[i], mission_mappings[m], m, i - 1, rnd).ok}

\* The k-th smallest element of a set of numbers
KthOf(good, k) == CHOOSE i \in good : Cardinality({j \in good : j < i}) = k - 1

\* recs are the records of the rows in good, one each, in file order
RecordsOf(recs, frame, good, m, h, rnd) ==
    /\ Len(recs) = Cardinality(good)
    /\ Len(recs) <= Len(frame)
    /\ \A k \in 1..Len(recs) :
          recs[k] = Labelled(map_row_to_exoplanet(frame[KthOf(good, k)], mission_mappings[m],
                                                  m, KthOf(good, k) - 1, rnd).exoplanet, h)

\* process_csv raised, as the handler shows it: HTTP 500 with the file unlinked
ProcessRaised == pc = "done" /\ response.status = 500 /\ env = [temp_file |-> "deleted"]

\* process_csv was called and has returned or raised
ProcessCalled == pc = "insert" \/ (pc = "done" /\ env = [temp_file |-> "deleted"])

\* C29: process_csv skips a row whose mapping fails (a value that is not a
\* number, or no name under a mission's mapping; the generic mapping names a
\* nameless row exoplanet-<index> and keeps it) and still processes every other
\* row: the records returned are exactly those of the rows that map, in file
\* order, never more than the rows; it raises only when the file is unreadable
\* or the mission type is unsupported.
C29_RowFailuresIsolated ==
    ProcessCalled
        => /\ ProcessRaised <=> (~file.readable \/ classified = "")
           /\ classified = ""
                => \/ ~file.readable
                   \/ actual_mapping_type(LowerSet(file.header), model_type)
                         \notin DOMAIN mission_mappings
           /\ classified # ""
                => \E rnd \in Randoms :
                      RecordsOf(results, read_csv(file),
                                MappingRows(read_csv(file), classified, rnd),
                                classified, model_type, rnd)

\* The row holds a name: in the mapping's name column, or for the generic
\* mapping in one of the finder's candidate columns
HasName(row, m) ==
    IF m = "unknown"
    THEN \E n \in {"name", "pl_name", "toi", "kepler_name", "planet_name", "id"} :
            InCols(n, row) /\ Truthy(Cell(row, n)) /\ notna(Cell(row, n))
    ELSE Truthy(safe_get(row, mission_mappings[m].name))
         /\ notna(safe_get(row, mission_mappings[m].name))

Named(frame, good, m) == {i \in good : HasName(frame[i], m)}

\* C29 as stated: every row that has no name is skipped, so the records are
\* those of the rows that hold a name and map.
C29_NamelessSkipped ==
    (ProcessCalled /\ classified # "")
        => \E rnd \in Randoms :
              RecordsOf(results, read_csv(file),
                        Named(read_csv(file), MappingRows(read_csv(file), classified, rnd),
                              classified),
                        classified, model_type, rnd)

\* A first row whose right ascension is text is skipped and the second row is
\* still mapped
C29_Witness ==
    /\ pc = "insert"
    /\ Len(file.cells) = 2
    /\ file.header = <<"toi", "ra", "pl_orbper">>
    /\ file.cells[1] = <<"101.01", "abc", "12.3">>
    /\ file.cells[2] = <<"101.01", "285.5", "12.3">>
    /\ Len(results) = 1
    /\ results[1].rightAscension = 28550000

\* C30: when upload-csv has returned or raised, every temporary file it
\* created has been deleted, on every exit path (a failure while reading the
\* uploaded bytes included); and a successful response has
\* 0 <= inserted <= total_processed with inserted the number of records whose
\* insertion succeeded.
C30_TempFileDeleted ==
    pc = "done"
        => /\ env # [temp_file |-> "exists"]
           /\ response.status = 200
                => /\ 0 <= response.inserted
                   /\ response.inserted <= response.total_processed
                   /\ response.inserted = Len(rows)

\* The exit paths past the read: the file is unlinked, and the loop visits every
\* record whatever the earlier insertions did
DeletedAfterRead ==
    /\ (pc = "done" /\ response.detail # "Error procesando archivo: read")
          => env # [temp_file |-> "exists"]
    /\ (pc = "done" /\ response.status = 200)
          => /\ idx = Len(results)
             /\ response.total_processed = Len(results)
             /\ response.inserted = Len(rows)
             /\ response.inserted \in 0..response.total_processed

\* C22: for every file, the debug preview's header_line_index equals the
\* header index of /upload, and its final column names equal upload's column
\* names after the alias and substring steps.
C22_PreviewMatchesUpload ==
    (pc = "return" /\ result.status = 200 /\ response.status # 500)
        => /\ result.header_line_index = idx
           /\ result.final_columns = columns(df)

\* What the two do share: the comment stripper, and the header index whenever
\* a header-looking line lies within 20 lines of the first data line
PreviewSharesStart ==
    (pc = "return"
     /\ FindHeader(args, SkipComments(args, 0),
                   preview_window_end(args, SkipComments(args, 0))) # -1)
        => result.header_line_index = idx

\* C23: in the feature vector handed to the predictor, stellar_mass and
\* stellar_temperature are the defaults 1.0 and 5778 when the request holds no
\* value, and a supplied number, 0 included, is passed through unchanged.
C23_StellarDefaults ==
    pc = "return"
        => /\ result[5] = (IF args.request.stellar_mass.k = "none"
                           THEN DEFAULT_STELLAR_MASS ELSE args.request.stellar_mass)
           /\ result[6] = (IF args.request.stellar_temperature.k = "none"
                           THEN DEFAULT_STELLAR_TEMPERATURE
                           ELSE args.request.stellar_temperature)

\* The defaults stand in when the value is absent, and a supplied number other
\* than 0 is passed through
DefaultsUnlessZero ==
    pc = "return"
        => /\ args.request.stellar_mass.k = "none" => result[5] = DEFAULT_STELLAR_MASS
           /\ (args.request.stellar_mass.k = "num" /\ args.request.stellar_mass.v # 0)
                 => result[5] = args.request.stellar_mass
           /\ args.request.stellar_temperature.k = "none"
                 => result[6] = DEFAULT_STELLAR_TEMPERATURE
           /\ (args.request.stellar_temperature.k = "num"
               /\ args.request.stellar_temperature.v # 0)
                 => result[6] = args.request.stellar_temperature

\* An upload classified as K2 whose required columns are all there and whose
\* first row gave a request, answered on a server that has the K2 model
K2Answered ==
    /\ pc = "done"
    /\ required_columns = required_for("k2")
    /\ request.orbital_period.k = "num"
    /\ env.loaded

\* C25: an upload classified as K2, with every K2 column and a valid first
\* row, ends with a prediction response, transit_duration and transit_depth
\* being None in the request, and not with an error those two None cause.
C25_K2UploadAnswered ==
    K2Answered
        => /\ request.transit_duration = None
           /\ request.transit_depth = None
           /\ response.status = 200

\* The request of a K2 upload does leave the two fields None
K2LeavesGeometryNone ==
    (pc \in {"predict", "done"} /\ required_columns = required_for("k2")
     /\ request.orbital_period.k = "num")
        => request.transit_duration = None /\ request.transit_depth = None

\* period >= 5, snr >= 10, 1.0 <= radius <= 15 and confianza >= 0.8, an absent
\* period, snr, radius counting as 1000, 0, 0
K2Sound(d, confianza) ==
    /\ Get(d.period, 10000) >= 50
    /\ Get(d.snr, 0) >= 100
    /\ Get(d.radius, 0) >= 10
    /\ Get(d.radius, 0) <= 150
    /\ confianza >= 80

\* C26: for telescope k2 the final prediction is CONFIRMED only if the
\* original one was CONFIRMED and period, snr, radius and confianza are sound;
\* a CONFIRMED original that fails one of them becomes CANDIDATE when
\* P(CANDIDATE) > P(FALSE POSITIVE) and FALSE POSITIVE otherwise; nothing is
\* promoted to CONFIRMED.
C26_K2NeverOverConfirms ==
    (pc = "return" /\ args.telescopio = "k2")
        => /\ result.prediccion = "CONFIRMED"
                => /\ args.resultado.prediccion = "CONFIRMED"
                   /\ K2Sound(args.datos, args.resultado.confianza)
           /\ (args.resultado.prediccion = "CONFIRMED"
               /\ ~K2Sound(args.datos, args.resultado.confianza))
                => result.prediccion =
                      (IF args.resultado.probabilidades["CANDIDATE"]
                            > args.resultado.probabilidades["FALSE POSITIVE"]
                       THEN "CANDIDATE" ELSE "FALSE POSITIVE")
           /\ args.resultado.prediccion # "CONFIRMED" => result.prediccion # "CONFIRMED"

\* A k2 CONFIRMED with sound period, snr and radius but a confidence of 0.7 is
\* demoted to CANDIDATE
C26_Witness ==
    /\ pc = "return"
    /\ args.telescopio = "k2"
    /\ args.resultado.prediccion = "CONFIRMED"
    /\ args.datos = [period |-> <<50>>, snr |-> <<100>>, radius |-> <<10>>, depth |-> Absent]
    /\ args.resultado.confianza = 70
    /\ result.prediccion = "CANDIDATE"
    /\ result.prediccion_original = "CONFIRMED"

\* C28: a call applies at most one rule.  When none fires, prediccion is
\* unchanged and correccion_aplicada is False; when one fires,
\* correccion_aplicada is True, prediccion_original holds the prior label, the
\* new prediccion differs from it and confianza_corregida is the probability
\* of the new label.
C28_OneCorrection ==
    pc = "return"
        => /\ result.rule \in 0..4
           /\ result.probabilidades = args.resultado.probabilidades
           /\ result.confianza = args.resultado.confianza
           /\ ~result.correccion_aplicada
                => /\ result.prediccion = args.resultado.prediccion
                   /\ result.rule = 0
           /\ result.correccion_aplicada
                => /\ result.rule # 0
                   /\ result.prediccion_original = args.resultado.prediccion
                   /\ result.prediccion # result.prediccion_original
                   /\ result.confianza_corregida
                         = <<args.resultado.probabilidades[result.prediccion]>>

\* The low-confidence rule replaces a CONFIRMED of probability 0.5 by the
\* second class
C28_Witness ==
    /\ pc = "return"
    /\ args.telescopio = "kepler"
    /\ args.resultado.prediccion = "CONFIRMED"
    /\ args.resultado.confianza = 50
    /\ result.correccion_aplicada
    /\ result.rule = 3
    /\ result.prediccion = "FALSE POSITIVE"
    /\ result.confianza_corregida = <<40>>

TessCodes == {"PC", "CP", "KP", "APC", "FP", "FA"}

\* C27: for each TESS disposition code PC, CP, KP, APC, FP, FA and for every
\* unrecognised code, the dashboard's normalize_disp gives the label that
\* preprocesar_telescopio gives in training.
C27_DashboardMatchesTraining ==
    (pc = "return" /\ args.k = "str"
     /\ (args.s \in TessCodes \/ ReplaceTess(args.s) = args.s))
        => result.dashboard = result.training

\* The codes on which the two agree
AgreeOnFourCodes ==
    (pc = "return" /\ args.k = "str" /\ args.s \in {"PC", "CP", "KP", "FP"})
        => result.dashboard = result.training

\* The orderings of the columns of a header
Orderings(header) ==
    {q \in [1..Len(header) -> {header[i] : i \in 1..Len(header)}] :
        \A i, j \in 1..Len(header) : i # j => q[i] # q[j]}

\* C24: the result of either schema classifier depends only on the set of
\* column names: every ordering of the same columns is classified alike by
\* detect_model_type and by CSVExoplanetMapper.detect_mission_type.
C24_OrderIndependent ==
    pc = "return"
        => \A q \in Orderings(args) :
              /\ detect_model_type(q) = result.model
              /\ detect_mission_type(q) = result.mission

\* A header with the markers of two missions, the lower-priority one first
C24_Witness ==
    /\ pc = "return"
    /\ args = <<"kepid", "v_mag", "toi">>
    /\ result.mission = "tess"
    /\ result.model = "k2"

=============================================================================
